---- MODULE Spec2Model ----
(***************************************************************************)
(* A model of claude-tree's batch tools and of the page it generates:      *)
(*   merge_edges.py  validate_edge_file, merge_edge_files, main            *)
(*   tree.py         build_tree, filter_tree_to_agent_docs,                *)
(*                   collect_agent_docs, main                              *)
(*   visualize.py    the script of the page: getCumulativeTokens,          *)
(*                   setDocTypeFilter, renderHeaviestPaths,                *)
(*                   copyHeaviestPathsReport, updateThresholds             *)
(*                                                                         *)
(* Python values are modelled as follows.                                  *)
(*   - "dict | None" is a sequence of length 0 (None) or 1 (the value).    *)
(*   - A JSON object key that is missing holds the marker Absent.          *)
(*   - A file name of the input directory is a record [name, ext]; name    *)
(*     is the rank of the file's stem in Python's string order.            *)
(*   - An error message is a record [edge, msg]; edge is <<i>> for a       *)
(*     message prefixed with "Edge {i}: " and <<>> for a message about     *)
(*     the file as a whole.                                                *)
(*   - A line of output is a record [text, n]: the fixed text and the      *)
(*     number or file name formatted into it.                              *)
(***************************************************************************)
EXTENDS Integers, Sequences, FiniteSets, TLC

VARIABLES
    \* ---- merge_edges.py ----
    dirExists,      \* input_dir.is_dir()
    dir,            \* the input directory: file name -> file content
    validate,       \* args.validate
    verbose,        \* args.verbose
    pc,             \* position of main()
    json_files,     \* sorted(input_dir.glob("*.json"))
    idx,            \* number of loop iterations of merge_edge_files done
    merged_edges,   \* merge_edge_files: merged_edges
    summary,        \* merge_edge_files: summary
    output,         \* content of the output file: None or merged_data
    stderr,         \* lines printed to sys.stderr
    exit_code,      \* None until the process ends, then <<0>> or <<1>>
    \* ---- validate_edge_file, on its own ----
    file_content,   \* the file validate_edge_file is called on
    validation,     \* None, then what validate_edge_file returned
    \* ---- tree.py ----
    built,          \* what build_tree returned
    full_tree,      \* args.full_tree
    tpc,            \* position of main()
    tree,           \* main: tree
    agent_docs,     \* main: agent_docs
    heap,           \* the dict objects of the trees, by object id
    built_ref,      \* the object build_tree returned
    tree_ref,       \* main: the object tree refers to
    root_path,      \* what args.root_path names: None, a file or a directory
    args_output,    \* args.output: None or the path of the output file
    tree_stdout,    \* None or the JSON document printed to stdout
    tree_file,      \* None or the JSON document written to args.output
    tree_stderr,    \* lines printed to sys.stderr
    tree_exit,      \* None until the process ends, then <<0>> or <<1>>
    \* ---- visualize.py: the script of the generated page ----
    TREE_DATA,          \* TREE_DATA.tree
    PATH_WEIGHTS_DATA,  \* None (null) or the path-weights artifact
    agentDocTokens,     \* Map: path of an agent doc -> tokens
    activeDocTypeFilter,
    selectedPath,       \* None (null) or the selected path
    path_info,          \* the sidebar: what selectPath last displayed
    heaviest_paths,     \* None (section hidden) or the list displayed
    copied_report,      \* None or the rows last handed to copyToClipboard
    tokenThresholds,
    greenInput,         \* value of the input #threshold-green
    yellowInput         \* value of the input #threshold-yellow

mergeVars == <<dirExists, dir, validate, verbose, pc, json_files, idx,
               merged_edges, summary, output, stderr, exit_code>>

validateVars == <<file_content, validation>>

buildVars == <<root_path, args_output, tree_stdout, tree_file, tree_stderr, tree_exit>>

treeVars == <<built, full_tree, tpc, tree, agent_docs, heap, built_ref, tree_ref,
              buildVars>>

vizVars == <<TREE_DATA, PATH_WEIGHTS_DATA, agentDocTokens, activeDocTypeFilter,
             selectedPath, path_info, heaviest_paths, copied_report,
             tokenThresholds, greenInput, yellowInput>>

vars == <<mergeVars, validateVars, treeVars, vizVars>>

----------------------------------------------------------------------------
(* Bounds *)

MaxFiles == 3

MaxEdges == 2

MaxDepth == 2

MaxTokens == 1

----------------------------------------------------------------------------
(* JSON values of an edge file *)

Absent == "<absent>"

NonString == "<non-string>"

None == <<>>

AllowedTypes == {"agent-doc", "file", "directory"}

\* An element of the "edges" array.
EdgeElems ==
    [isObject : {TRUE},
     source   : {Absent, "", "CLAUDE.md"},
     target   : {Absent, "src/app.py"},
     type     : {Absent, "symlink"} \cup AllowedTypes]
    \cup
    {[isObject |-> FALSE, source |-> Absent, target |-> Absent, type |-> Absent]}

RECURSIVE SeqsUpTo(_, _)
SeqsUpTo(S, n) ==
    IF n = 0 THEN {<<>>}
    ELSE LET shorter == SeqsUpTo(S, n - 1)
         IN  shorter \cup {Append(s, x) : s \in {t \in shorter : Len(t) = n - 1}, x \in S}

\* What a file of the input directory can hold.
FileContents ==
    [kind : {"unreadable", "badjson", "nonobject"},
     source : {Absent}, edgesKind : {"missing"}, edges : {<<>>}]
    \cup
    [kind : {"object"},
     source : {Absent, NonString, "CLAUDE.md"},
     edgesKind : {"missing", "nonarray"}, edges : {<<>>}]
    \cup
    [kind : {"object"},
     source : {Absent, NonString, "CLAUDE.md"},
     edgesKind : {"array"}, edges : SeqsUpTo(EdgeElems, MaxEdges)]

----------------------------------------------------------------------------
(* merge_edges.py: validate_edge_file *)

Err(i, m) == [edge |-> <<i>>, msg |-> m]

FileErr(m) == [edge |-> None, msg |-> m]

\* Lines 67-77: the errors of one element of "edges".
EdgeErrors(edge, i) ==
    IF ~edge.isObject THEN <<Err(i, "must be an object")>>
    ELSE (IF edge.source = Absent THEN <<Err(i, "missing 'source'")>> ELSE <<>>)
         \o (IF edge.target = Absent THEN <<Err(i, "missing 'target'")>> ELSE <<>>)
         \o (IF edge.type = Absent THEN <<Err(i, "missing 'type'")>>
             ELSE IF edge.type \notin AllowedTypes
                  THEN <<Err(i, "'type' must be 'agent-doc', 'file', or 'directory'")>>
                  ELSE <<>>)

\* A loop that stops at the first element with an error.
RECURSIVE EdgesErrorsFirstOnly(_, _)
EdgesErrorsFirstOnly(edges, i) ==
    IF i >= Len(edges) THEN <<>>
    ELSE IF EdgeErrors(edges[i + 1], i) # <<>> THEN EdgeErrors(edges[i + 1], i)
    ELSE EdgesErrorsFirstOnly(edges, i + 1)

\* Lines 66-77: the loop over enumerate(data["edges"]), from index i on.
RECURSIVE EdgesErrors(_, _)
EdgesErrors(edges, i) ==
    IF i >= Len(edges) THEN <<>>
    ELSE EdgeErrors(edges[i + 1], i) \o EdgesErrors(edges, i + 1)

\* Lines 56-59.
SourceErrors(data) ==
    IF data.source = Absent THEN <<FileErr("Missing 'source' field")>>
    ELSE IF data.source = NonString THEN <<FileErr("'source' must be a string")>>
    ELSE <<>>

\* Lines 61-77.
EdgesFieldErrors(data) ==
    IF data.edgesKind = "missing" THEN <<FileErr("Missing 'edges' field")>>
    ELSE IF data.edgesKind = "nonarray" THEN <<FileErr("'edges' must be an array")>>
    ELSE EdgesErrors(data.edges, 0)

\* Lines 51-80: the errors of a parsed file.
StructureErrors(data) ==
    IF data.kind # "object" THEN <<FileErr("Root must be an object")>>
    ELSE SourceErrors(data) \o EdgesFieldErrors(data)

\* Lines 29-82: (parsed_data or None, errors).
validate_edge_file(content) ==
    IF content.kind = "unreadable"
    THEN [data |-> None, errors |-> <<FileErr("Could not read file")>>]
    ELSE IF content.kind = "badjson"
    THEN [data |-> None, errors |-> <<FileErr("Invalid JSON")>>]
    ELSE LET errors == StructureErrors(content)
         IN  IF errors # <<>>
             THEN [data |-> None, errors |-> errors]
             ELSE [data |-> <<content>>, errors |-> <<>>]

----------------------------------------------------------------------------
(* merge_edges.py: merge_edge_files *)

JsonName(n) == [name |-> n, ext |-> "json"]

\* A file the "*.json" pattern does not match.
TextName == [name |-> 1, ext |-> "txt"]

\* A listing that takes every file of the directory.
globAll(d) == DOMAIN d

\* Line 102: input_dir.glob("*.json").
glob(d) == {f \in DOMAIN d : f.ext = "json"}

\* Path order of two files of one directory.
PathLess(f, g) ==
    \/ f.name < g.name
    \/ f.name = g.name /\ f.ext = "json" /\ g.ext = "txt"

\* The files in descending order.
RECURSIVE sortedDescending(_)
sortedDescending(S) ==
    IF S = {} THEN <<>>
    ELSE LET last == CHOOSE f \in S : \A g \in S \ {f} : PathLess(g, f)
         IN  <<last>> \o sortedDescending(S \ {last})

\* Line 102: sorted(...), ascending.
RECURSIVE sorted(_)
sorted(S) ==
    IF S = {} THEN <<>>
    ELSE LET first == CHOOSE f \in S : \A g \in S \ {f} : PathLess(f, g)
         IN  <<first>> \o sorted(S \ {first})

Line(t, n) == [text |-> t, n |-> n]

\* Lines 92-99.
EmptySummary ==
    [files_processed |-> 0, files_valid |-> 0, files_invalid |-> 0,
     total_edges |-> 0, validation_errors |-> <<>>]

\* summary["validation_errors"][name] = errors
SetItem(d, key, value) ==
    [k \in DOMAIN d \cup {key} |-> IF k = key THEN value ELSE d[k]]

\* A branch of an invalid file that records its errors in every mode.
MergeInvalidRecordingAlways(st, file_path, errors, v, vb) ==
    [merged_edges |-> st.merged_edges,
     summary |->
        [st.summary EXCEPT
            !.files_processed = @ + 1,
            !.files_invalid = @ + 1,
            !.validation_errors = SetItem(@, file_path, errors)],
     stderr |->
        st.stderr
        \o (IF vb THEN <<Line("Processing", file_path.name),
                         Line("-> INVALID errors", Len(errors))>>
            ELSE <<>>)]

\* A branch of an invalid file that counts the file only when it does not
\* record its errors.
MergeInvalidCountedUnlessDetailed(st, file_path, errors, v, vb) ==
    [merged_edges |-> st.merged_edges,
     summary |->
        [st.summary EXCEPT
            !.files_processed = @ + 1,
            !.files_invalid = IF v THEN @ ELSE @ + 1,
            !.validation_errors =
                IF v THEN SetItem(@, file_path, errors) ELSE @],
     stderr |->
        st.stderr
        \o (IF vb THEN <<Line("Processing", file_path.name),
                         Line("-> INVALID errors", Len(errors))>>
            ELSE <<>>)]

\* Lines 112-117: the branch of an invalid file.
MergeInvalid(st, file_path, errors, v, vb) ==
    [merged_edges |-> st.merged_edges,
     summary |->
        [st.summary EXCEPT
            !.files_processed = @ + 1,
            !.files_invalid = @ + 1,
            !.validation_errors =
                IF v THEN SetItem(@, file_path, errors) ELSE @],
     stderr |->
        st.stderr
        \o (IF vb THEN <<Line("Processing", file_path.name),
                         Line("-> INVALID errors", Len(errors))>>
            ELSE <<>>)]

\* A valid branch that counts the file, not its edges.
MergeValidCountingFiles(st, file_path, data, v, vb) ==
    [merged_edges |-> st.merged_edges \o data.edges,
     summary |->
        [st.summary EXCEPT
            !.files_processed = @ + 1,
            !.files_valid = @ + 1,
            !.total_edges = @ + 1],
     stderr |->
        st.stderr
        \o (IF vb THEN <<Line("Processing", file_path.name),
                         Line("-> OK edges", Len(data.edges))>>
            ELSE <<>>)]

\* Lines 118-124: the branch of a valid file.
MergeValid(st, file_path, data, v, vb) ==
    LET edges == data.edges
    IN  [merged_edges |-> st.merged_edges \o edges,
         summary |->
            [st.summary EXCEPT
                !.files_processed = @ + 1,
                !.files_valid = @ + 1,
                !.total_edges = @ + Len(edges)],
         stderr |->
            st.stderr
            \o (IF vb THEN <<Line("Processing", file_path.name),
                             Line("-> OK edges", Len(edges))>>
                ELSE <<>>)]

\* A merge that takes the edges of every file holding an "edges" array,
\* whatever its errors.
MergeFileStepKeepingInvalid(st, file_path, content, v, vb) ==
    LET res == validate_edge_file(content)
    IN  IF content.kind = "object" /\ content.edgesKind = "array"
        THEN MergeValid(st, file_path, content, v, vb)
        ELSE MergeInvalid(st, file_path, res.errors, v, vb)

\* Lines 105-124: one iteration of the loop over json_files.
MergeFileStep(st, file_path, content, v, vb) ==
    LET res == validate_edge_file(content)
    IN  IF res.errors # <<>>
        THEN MergeInvalid(st, file_path, res.errors, v, vb)
        ELSE MergeValid(st, file_path, res.data[1], v, vb)

\* Lines 104-124: the loop from its i-th iteration on.
RECURSIVE MergeLoop(_, _, _, _, _, _)
MergeLoop(st, files, i, d, v, vb) ==
    IF i >= Len(files) THEN st
    ELSE MergeLoop(MergeFileStep(st, files[i + 1], d[files[i + 1]], v, vb),
                   files, i + 1, d, v, vb)

\* Lines 85-126: (merged_data, summary), with what it printed.
merge_edge_files(d, v, vb) ==
    LET st == MergeLoop([merged_edges |-> <<>>, summary |-> EmptySummary,
                         stderr |-> <<>>],
                        sorted(glob(d)), 0, d, v, vb)
    IN  [merged_data |-> [edges |-> st.merged_edges],
         summary |-> st.summary,
         stderr |-> st.stderr]

----------------------------------------------------------------------------
(* merge_edges.py: main *)

\* An exit status that fails only when no file was valid.
ExitStatusAllOrNothing(s) ==
    IF s.files_invalid > 0 /\ s.files_valid = 0 THEN 1 ELSE 0

\* Lines 190-192, reached at the end of main.
ExitStatus(s) == IF s.files_invalid > 0 THEN 1 ELSE 0

\* Lines 176-188.
SummaryLines(s, v) ==
    <<Line("Files processed", s.files_processed),
      Line("Files valid", s.files_valid),
      Line("Files invalid", s.files_invalid),
      Line("Total edges", s.total_edges),
      Line("Output written to", 0)>>
    \o (IF v /\ DOMAIN s.validation_errors # {}
        THEN <<Line("Validation errors", Cardinality(DOMAIN s.validation_errors))>>
        ELSE <<>>)

\* Lines 161-164: the input directory is missing.
InputDirMissing ==
    /\ pc = "start"
    /\ ~dirExists
    /\ stderr' = Append(stderr, Line("Error: Input directory does not exist", 0))
    /\ exit_code' = <<1>>
    /\ pc' = "done"
    /\ UNCHANGED <<dirExists, dir, validate, verbose, json_files, idx,
                   merged_edges, summary, output, validateVars, treeVars, vizVars>>

\* Lines 167, 92-102: main calls merge_edge_files, which lists the directory.
MergeStart ==
    /\ pc = "start"
    /\ dirExists
    /\ merged_edges' = <<>>
    /\ summary' = EmptySummary
    /\ json_files' = sorted(glob(dir))
    /\ idx' = 0
    /\ pc' = "merge"
    /\ UNCHANGED <<dirExists, dir, validate, verbose, output, stderr, exit_code,
                   validateVars, treeVars, vizVars>>

\* Lines 104-124: one file is read, validated and merged or counted invalid.
MergeFile ==
    /\ pc = "merge"
    /\ idx < Len(json_files)
    /\ LET file_path == json_files[idx + 1]
           st == MergeFileStep([merged_edges |-> merged_edges,
                                summary |-> summary, stderr |-> stderr],
                               file_path, dir[file_path], validate, verbose)
       IN  /\ merged_edges' = st.merged_edges
           /\ summary' = st.summary
           /\ stderr' = st.stderr
    /\ idx' = idx + 1
    /\ UNCHANGED <<dirExists, dir, validate, verbose, pc, json_files, output,
                   exit_code, validateVars, treeVars, vizVars>>

\* An all-or-nothing main: the output is written only when no file was invalid.
WriteOutputIfAllValid ==
    /\ pc = "merge"
    /\ idx = Len(json_files)
    /\ output' = IF summary.files_invalid > 0 THEN output
                 ELSE <<[edges |-> merged_edges]>>
    /\ pc' = "report"
    /\ UNCHANGED <<dirExists, dir, validate, verbose, json_files, idx,
                   merged_edges, summary, stderr, exit_code, validateVars, treeVars, vizVars>>

\* Lines 126, 169-173: merge_edge_files returns and main writes the output.
WriteOutput ==
    /\ pc = "merge"
    /\ idx = Len(json_files)
    /\ output' = <<[edges |-> merged_edges]>>
    /\ pc' = "report"
    /\ UNCHANGED <<dirExists, dir, validate, verbose, json_files, idx,
                   merged_edges, summary, stderr, exit_code, validateVars, treeVars, vizVars>>

\* Lines 175-192: the summary is printed and the process ends.
ReportAndExit ==
    /\ pc = "report"
    /\ stderr' = stderr \o SummaryLines(summary, validate)
    /\ exit_code' = <<ExitStatus(summary)>>
    /\ pc' = "done"
    /\ UNCHANGED <<dirExists, dir, validate, verbose, json_files, idx,
                   merged_edges, summary, output, validateVars, treeVars, vizVars>>

\* Edges the examples use.
EdgeA == [isObject |-> TRUE, source |-> "CLAUDE.md", target |-> "src/app.py", type |-> "file"]

EdgeB == [isObject |-> TRUE, source |-> "CLAUDE.md", target |-> "src/app.py", type |-> "directory"]

EdgeEmptySource == [isObject |-> TRUE, source |-> "", target |-> "src/app.py", type |-> "agent-doc"]

EdgeBadType == [isObject |-> TRUE, source |-> "CLAUDE.md", target |-> "src/app.py", type |-> "symlink"]

Record(edges) ==
    [kind |-> "object", source |-> "CLAUDE.md", edgesKind |-> "array", edges |-> edges]

\* The files the merge is run on: every way a file is rejected that the merge
\* tells apart, and valid files with zero, one and repeated edges.
MergeContents ==
    {[kind |-> "badjson", source |-> Absent, edgesKind |-> "missing", edges |-> <<>>],
     [kind |-> "object", source |-> "CLAUDE.md", edgesKind |-> "missing", edges |-> <<>>],
     Record(<<>>),
     Record(<<EdgeA>>),
     Record(<<EdgeB, EdgeA>>),
     Record(<<EdgeEmptySource>>),
     Record(<<EdgeA, EdgeBadType>>)}

JsonNames == {JsonName(n) : n \in 1..MaxFiles}

\* The directories: any set of JSON files, with or without a file that is
\* not a JSON file.
Directories ==
    {[f \in DOMAIN d \cup T |-> IF f \in T THEN Record(<<EdgeB>>) ELSE d[f]] :
        d \in UNION {[J -> MergeContents] : J \in SUBSET JsonNames},
        T \in {{}, {TextName}}}

\* The state of main before it runs, and while another operation is examined.
MergeAtRest ==
    /\ pc = "start"
    /\ json_files = <<>>
    /\ idx = 0
    /\ merged_edges = <<>>
    /\ summary = EmptySummary
    /\ output = None
    /\ stderr = <<>>
    /\ exit_code = None

NoMerge ==
    /\ dirExists = FALSE
    /\ dir = <<>>
    /\ validate = FALSE
    /\ verbose = FALSE
    /\ MergeAtRest

ValidateAtRest ==
    /\ file_content = None
    /\ validation = None

\* tree.py's main has read no root and written nothing.
BuildAtRest ==
    /\ root_path = None
    /\ args_output = None
    /\ tree_stdout = None
    /\ tree_file = None
    /\ tree_stderr = <<>>
    /\ tree_exit = None

NoTree ==
    /\ BuildAtRest
    /\ built = None
    /\ full_tree = FALSE
    /\ tpc = "idle"
    /\ tree = None
    /\ agent_docs = <<>>
    /\ heap = <<>>
    /\ built_ref = 0
    /\ tree_ref = 0

\* No page is open.
NoViz ==
    /\ TREE_DATA = None
    /\ PATH_WEIGHTS_DATA = None
    /\ agentDocTokens = <<>>
    /\ activeDocTypeFilter = "all"
    /\ selectedPath = None
    /\ path_info = None
    /\ heaviest_paths = None
    /\ copied_report = None
    /\ tokenThresholds = None
    /\ greenInput = None
    /\ yellowInput = None

InitMerge ==
    /\ dirExists \in BOOLEAN
    /\ dir \in (IF dirExists THEN Directories ELSE {<<>>})
    /\ validate \in BOOLEAN
    /\ verbose \in BOOLEAN
    /\ MergeAtRest
    /\ ValidateAtRest
    /\ NoTree
    /\ NoViz

NextMerge ==
    \/ InputDirMissing
    \/ MergeStart
    \/ MergeFile
    \/ WriteOutput
    \/ ReportAndExit

SpecMerge == InitMerge /\ [][NextMerge]_vars

----------------------------------------------------------------------------
(* validate_edge_file applied to one file *)

\* Lines 29-82: validate_edge_file(file_path) returns.
ValidateFile ==
    /\ file_content # None
    /\ validation = None
    /\ validation' = <<validate_edge_file(file_content[1])>>
    /\ UNCHANGED <<file_content, mergeVars, treeVars, vizVars>>

InitValidate ==
    /\ file_content \in {<<c>> : c \in FileContents}
    /\ validation = None
    /\ NoMerge
    /\ NoTree
    /\ NoViz

NextValidate == ValidateFile

SpecValidate == InitValidate /\ [][NextValidate]_vars

----------------------------------------------------------------------------
(* What the specification says of a file and of a merge *)

\* Section 4.3, step 3: the file has the shape of an EdgeRecord.
WellFormedEdge(e) ==
    /\ e.isObject
    /\ e.source # Absent
    /\ e.target # Absent
    /\ e.type \in AllowedTypes

WellFormed(c) ==
    /\ c.kind = "object"
    /\ c.source \notin {Absent, NonString}
    /\ c.edgesKind = "array"
    /\ \A i \in 1..Len(c.edges) : WellFormedEdge(c.edges[i])

JsonFilesOf(d) == {f \in DOMAIN d : f.ext = "json"}

InvalidFilesOf(d) == {f \in JsonFilesOf(d) : ~WellFormed(d[f])}

\* The edges of the well-formed JSON files of d named n or later, file after
\* file in name order.
RECURSIVE ExpectedEdges(_, _)
ExpectedEdges(d, n) ==
    IF n > MaxFiles THEN <<>>
    ELSE (IF JsonName(n) \in DOMAIN d /\ WellFormed(d[JsonName(n)])
          THEN d[JsonName(n)].edges ELSE <<>>)
         \o ExpectedEdges(d, n + 1)

Without(d, f) == [g \in DOMAIN d \ {f} |-> d[g]]

Merged == pc \in {"report", "done"}

Occurrences(seq, x) == Cardinality({i \in 1..Len(seq) : seq[i] = x})

----------------------------------------------------------------------------
(* Claims about the merge *)

\* C1: merge isolation. Once the merge of a directory is done, for every
\* structurally invalid JSON file of the directory, the merged edges are, in
\* the same order, the edges merge_edge_files gives for the directory without
\* that file: the invalid file adds no edge and changes none of the others.
MergeIsolation ==
    Merged =>
        \A f \in InvalidFilesOf(dir) :
            merge_edge_files(Without(dir, f), validate, verbose).merged_data.edges
                = merged_edges

MergeIsolationWitness ==
    /\ pc = "done"
    /\ Cardinality(InvalidFilesOf(dir)) = 1
    /\ Cardinality(JsonFilesOf(dir)) = MaxFiles
    /\ \E f \in InvalidFilesOf(dir) :
          /\ dir[f].edgesKind = "array" /\ Len(dir[f].edges) > 0
          /\ f = JsonName(2)
    /\ Len(merged_edges) >= 2

\* C2: merge completeness under validity. When every JSON file of the
\* directory is structurally valid, the merged list has as many edges as the
\* files hold together, total_edges is that number and files_invalid is 0.
RECURSIVE SumOfEdges(_, _)
SumOfEdges(d, n) ==
    IF n > MaxFiles THEN 0
    ELSE (IF JsonName(n) \in DOMAIN d THEN Len(d[JsonName(n)].edges) ELSE 0)
         + SumOfEdges(d, n + 1)

MergeCompleteness ==
    (Merged /\ InvalidFilesOf(dir) = {}) =>
        /\ Len(merged_edges) = SumOfEdges(dir, 1)
        /\ summary.total_edges = SumOfEdges(dir, 1)
        /\ summary.files_invalid = 0

MergeCompletenessWitness ==
    /\ pc = "done"
    /\ InvalidFilesOf(dir) = {}
    /\ Cardinality(JsonFilesOf(dir)) >= 2
    /\ summary.total_edges >= 3

\* C3: the merged list is the concatenation, in file name order, of the edge
\* lists of the valid files, each in its own order and with every repetition
\* kept.
MergeIsConcatenation ==
    Merged => merged_edges = ExpectedEdges(dir, 1)

MergeIsConcatenationWitness ==
    /\ pc = "done"
    /\ merged_edges = <<EdgeA, EdgeB, EdgeA>>
    /\ Occurrences(merged_edges, EdgeA) = 2

MergedEdgesAreComplete ==
    \A i \in 1..Len(merged_edges) :
        /\ merged_edges[i].source \notin {Absent, ""}
        /\ merged_edges[i].target \notin {Absent, ""}
        /\ merged_edges[i].type \in AllowedTypes

\* C8: after each file is handled files_valid + files_invalid is
\* files_processed, the number of files handled; at the end files_processed is
\* the number of JSON files of the directory and files_invalid the number of
\* those that are not well-formed, a file without 'edges' among them.
FileCountsAddUp ==
    /\ pc \in {"merge", "report", "done"} =>
          /\ summary.files_valid + summary.files_invalid = summary.files_processed
          /\ summary.files_processed = idx
    /\ Merged =>
          /\ summary.files_processed = Cardinality(JsonFilesOf(dir))
          /\ summary.files_invalid = Cardinality(InvalidFilesOf(dir))
          /\ summary.files_invalid >=
                Cardinality({f \in JsonFilesOf(dir) : dir[f].edgesKind = "missing"})

FileCountsWitness ==
    /\ pc = "done"
    /\ Cardinality(JsonFilesOf(dir)) = 3
    /\ Cardinality({f \in JsonFilesOf(dir) :
                      dir[f].kind = "object" /\ dir[f].edgesKind = "missing"}) = 1
    /\ summary.files_processed = 3
    /\ summary.files_valid = 2
    /\ summary.files_invalid = 1
    /\ exit_code = <<1>>

----------------------------------------------------------------------------
(* Claims about validate_edge_file *)

\* The violations of a file whose root is an object, one per rule it breaks.
Only(e, cond) == IF cond THEN {e} ELSE {}

Violations(c) ==
    Only(FileErr("Missing 'source' field"), c.source = Absent)
    \cup Only(FileErr("'source' must be a string"), c.source = NonString)
    \cup Only(FileErr("Missing 'edges' field"), c.edgesKind = "missing")
    \cup Only(FileErr("'edges' must be an array"), c.edgesKind = "nonarray")
    \cup UNION {LET e == c.edges[k] IN
                  Only(Err(k - 1, "must be an object"), ~e.isObject)
                  \cup Only(Err(k - 1, "missing 'source'"),
                            e.isObject /\ e.source = Absent)
                  \cup Only(Err(k - 1, "missing 'target'"),
                            e.isObject /\ e.target = Absent)
                  \cup Only(Err(k - 1, "missing 'type'"),
                            e.isObject /\ e.type = Absent)
                  \cup Only(Err(k - 1, "'type' must be 'agent-doc', 'file', or 'directory'"),
                            e.isObject /\ e.type \notin AllowedTypes \cup {Absent})
                : k \in 1..Len(c.edges)}

\* C7: for a file whose root is an object, the returned error list holds
\* every violation of the file exactly once: no violation is left out because
\* of an earlier one, and no error is repeated.
AllViolationsReported ==
    (validation # None /\ file_content[1].kind = "object") =>
        LET errors == validation[1].errors
        IN  /\ {errors[k] : k \in 1..Len(errors)} = Violations(file_content[1])
            /\ Len(errors) = Cardinality(Violations(file_content[1]))

AllViolationsReportedWitness ==
    /\ validation # None
    /\ file_content[1].kind = "object"
    /\ file_content[1].source = Absent
    /\ Len(file_content[1].edges) = 2
    /\ Len(validation[1].errors) >= 5

----------------------------------------------------------------------------
(* tree.py: the nodes of a tree *)

(* A node is a record [name, path, type, children, isAgentDoc, tokens].     *)
(* path is the sequence of the names from the root down to the node: <<>>   *)
(* is the root's ".", <<"a", "c">> is "a/c". A key the Python dict does not *)
(* have holds what node.get gives for it: no children, not an agent doc,    *)
(* 0 tokens.                                                                *)

\* Lines 106-111: a directory node.
DirectoryNode(name, path, children) ==
    [name |-> name, path |-> path, type |-> "directory", children |-> children,
     isAgentDoc |-> FALSE, tokens |-> 0]

\* Lines 140-144: the node of a file that is not an agent doc.
FileNode(name, path) ==
    [name |-> name, path |-> path, type |-> "file", children |-> <<>>,
     isAgentDoc |-> FALSE, tokens |-> 0]

\* Lines 140-154: the node of an agent doc.
AgentDocNode(name, path, tokens) ==
    [name |-> name, path |-> path, type |-> "file", children |-> <<>>,
     isAgentDoc |-> TRUE, tokens |-> tokens]

----------------------------------------------------------------------------
(* tree.py: filter_tree_to_agent_docs *)

\* Lines 170-176.
RECURSIVE has_agent_doc(_)
has_agent_doc(node) ==
    \/ node.isAgentDoc
    \/ /\ node.type = "directory"
       /\ \E i \in 1..Len(node.children) : has_agent_doc(node.children[i])

\* A file test that keeps agent docs only.
KeepFileAgentDocsOnly(node, include_all_files) == node.isAgentDoc

\* Lines 180-187: whether filter_node returns a file node.
KeepFile(node, include_all_files) ==
    node.isAgentDoc \/ include_all_files

\* A directory test that looks for an agent doc among the children only.
KeepDirectoryWithOwnDoc(node, filtered_children) ==
    \E i \in 1..Len(node.children) : node.children[i].isAgentDoc

\* A directory test that keeps every directory.
KeepDirectoryAlways(node, filtered_children) == TRUE

\* A directory test that asks for children of the unfiltered directory.
KeepDirectoryIfHadChildren(node, filtered_children) ==
    node.children # <<>> \/ has_agent_doc(node)

\* Line 198: whether filter_node returns a directory node.
KeepDirectory(node, filtered_children) ==
    filtered_children # <<>> \/ has_agent_doc(node)

RECURSIVE filter_node(_, _)
RECURSIVE FilterChildren(_, _)

\* Lines 178-203.
filter_node(node, include_all_files) ==
    IF node.type = "file"
    THEN IF KeepFile(node, include_all_files) THEN <<node>> ELSE None
    ELSE LET filtered_children == FilterChildren(node, 1)
         IN  IF KeepDirectory(node, filtered_children)
             THEN <<[node EXCEPT !.children = filtered_children]>>
             ELSE None

\* Lines 190-196: the loop over the children, from the i-th on.
FilterChildren(node, i) ==
    IF i > Len(node.children) THEN <<>>
    ELSE filter_node(node.children[i], has_agent_doc(node))
         \o FilterChildren(node, i + 1)

\* A filter that gives the root without children when filter_node gives None.
filter_tree_or_bare_root(t) ==
    LET filtered == filter_node(t, FALSE)
    IN  IF filtered # None THEN filtered[1] ELSE [t EXCEPT !.children = <<>>]

\* Lines 163-205: filter_node(tree) or tree.
filter_tree_to_agent_docs(t) ==
    LET filtered == filter_node(t, FALSE)
    IN  IF filtered # None THEN filtered[1] ELSE t

----------------------------------------------------------------------------
(* tree.py: filter_tree_to_agent_docs, on objects                          *)
(*                                                                         *)
(* A heap is a sequence of dict objects; the id of an object is its index. *)
(* The "children" of an object holds the ids of the child objects. What    *)
(* the functions above compute on values is computed here on the objects,  *)
(* to tell a dict that is returned as it is from one that is built anew.   *)

RECURSIVE Store(_, _)
RECURSIVE StoreChildren(_, _, _, _)

\* The heap after the tree of value node has been built in it, and the id of
\* the tree's root object.
Store(h, node) ==
    LET r == StoreChildren(h, node, 1, <<>>)
    IN  [heap |-> Append(r.heap, [node EXCEPT !.children = r.refs]),
         ref  |-> Len(r.heap) + 1]

StoreChildren(h, node, i, refs) ==
    IF i > Len(node.children) THEN [heap |-> h, refs |-> refs]
    ELSE LET r == Store(h, node.children[i])
         IN  StoreChildren(r.heap, node, i + 1, Append(refs, r.ref))

\* The value of the tree whose root object is id.
RECURSIVE Deref(_, _)
Deref(h, id) ==
    [h[id] EXCEPT
        !.children = [i \in 1..Len(h[id].children) |-> Deref(h, h[id].children[i])]]

\* Lines 170-176, on objects.
RECURSIVE has_agent_doc_obj(_, _)
has_agent_doc_obj(h, id) ==
    \/ h[id].isAgentDoc
    \/ /\ h[id].type = "directory"
       /\ \E i \in 1..Len(h[id].children) : has_agent_doc_obj(h, h[id].children[i])

\* A directory result that stores filtered_children into the node itself.
UpdatedDirectory(h, id, filtered_children) ==
    [heap |-> [h EXCEPT ![id].children = filtered_children],
     ref  |-> <<id>>]

\* Lines 199-202: {**node, "children": filtered_children}, a new dict.
NewDirectory(h, id, filtered_children) ==
    [heap |-> Append(h, [h[id] EXCEPT !.children = filtered_children]),
     ref  |-> <<Len(h) + 1>>]

RECURSIVE filter_node_obj(_, _, _)
RECURSIVE FilterChildrenObj(_, _, _, _)

\* Lines 178-203, on objects: the heap after the call and the reference
\* returned, None or <<id>>. A file is returned as the object it is.
filter_node_obj(h, id, include_all_files) ==
    IF h[id].type = "file"
    THEN [heap |-> h,
          ref  |-> IF KeepFile(h[id], include_all_files) THEN <<id>> ELSE None]
    ELSE LET r == FilterChildrenObj(h, id, 1, <<>>)
         IN  IF r.refs # <<>> \/ has_agent_doc_obj(r.heap, id)
             THEN NewDirectory(r.heap, id, r.refs)
             ELSE [heap |-> r.heap, ref |-> None]

\* Lines 189-196: the loop over the children, from the i-th on, appending
\* to filtered_children.
FilterChildrenObj(h, id, i, filtered_children) ==
    IF i > Len(h[id].children)
    THEN [heap |-> h, refs |-> filtered_children]
    ELSE LET r == filter_node_obj(h, h[id].children[i], has_agent_doc_obj(h, id))
         IN  FilterChildrenObj(r.heap, id, i + 1, filtered_children \o r.ref)

\* Line 205: filter_node(tree) or tree.
filter_tree_to_agent_docs_obj(h, id) ==
    LET r == filter_node_obj(h, id, FALSE)
    IN  [heap |-> r.heap, ref |-> IF r.ref # None THEN r.ref[1] ELSE id]

----------------------------------------------------------------------------
(* tree.py: collect_agent_docs *)

RECURSIVE walk(_)
RECURSIVE WalkChildren(_, _)

\* Lines 212-219.
walk(node) ==
    (IF node.isAgentDoc THEN <<[path |-> node.path, tokens |-> node.tokens]>>
     ELSE <<>>)
    \o WalkChildren(node, 1)

WalkChildren(node, i) ==
    IF i > Len(node.children) THEN <<>>
    ELSE walk(node.children[i]) \o WalkChildren(node, i + 1)

\* A collection that does not descend below the children of the root.
collect_top_level_docs(t) ==
    LET docs == SelectSeq(t.children, LAMBDA c : c.isAgentDoc)
    IN  [i \in 1..Len(docs) |-> [path |-> docs[i].path, tokens |-> docs[i].tokens]]

\* Lines 208-222.
collect_agent_docs(t) == walk(t)

----------------------------------------------------------------------------
(* tree.py: main, from the tree build_tree returned *)

\* Lines 262-264: the tree is filtered unless --full-tree was given.
FilterTree ==
    /\ tpc = "built"
    /\ tree' = IF full_tree THEN tree ELSE filter_tree_to_agent_docs(tree)
    /\ LET r == filter_tree_to_agent_docs_obj(heap, tree_ref)
       IN  /\ heap' = IF full_tree THEN heap ELSE r.heap
           /\ tree_ref' = IF full_tree THEN tree_ref ELSE r.ref
    /\ tpc' = "filtered"
    /\ UNCHANGED <<built, full_tree, agent_docs, built_ref, buildVars,
                   mergeVars, validateVars, vizVars>>

\* Lines 266-267.
CollectAgentDocs ==
    /\ tpc = "filtered"
    /\ agent_docs' = collect_agent_docs(tree)
    /\ tpc' = "collected"
    /\ UNCHANGED <<built, full_tree, tree, heap, built_ref, tree_ref, buildVars,
                   mergeVars, validateVars, vizVars>>

\* The names of a directory's entries, in the order sorted(os.listdir(...))
\* (line 114) gives them.
SortedNames == <<"CLAUDE.md", "a", "b", "c", "main.py">>

AgentDocNames == {"CLAUDE.md"}

PlainFileNames == {"main.py"}

\* The directories a directory at path p can hold: two below the root, and
\* a chain of directories below the first of them.
SubdirNames(p) ==
    IF Len(p) >= MaxDepth THEN {}
    ELSE IF p = <<>> THEN {"a", "b"}
    ELSE IF p[1] = "a" THEN {"c"}
    ELSE {}

RECURSIVE DirectoriesAt(_, _)
RECURSIVE ChildSeqs(_, _)

\* The nodes build_tree can return for a directory at path p.
DirectoriesAt(name, p) ==
    {DirectoryNode(name, p, cs) : cs \in ChildSeqs(p, 1)}

\* The children a directory at path p can have among the names from the i-th
\* on: each entry is absent or present, and a directory only with a child of
\* its own (line 132).
ChildSeqs(p, i) ==
    IF i > Len(SortedNames) THEN {<<>>}
    ELSE LET n == SortedNames[i]
             q == Append(p, n)
             present ==
                IF n \in AgentDocNames
                THEN {<<AgentDocNode(n, q, t)>> : t \in 0..MaxTokens}
                ELSE IF n \in PlainFileNames THEN {<<FileNode(n, q)>>}
                ELSE IF n \in SubdirNames(p)
                THEN {<<d>> : d \in {x \in DirectoriesAt(n, q) : x.children # <<>>}}
                ELSE {}
         IN  {o \o rest : o \in {<<>>} \cup present, rest \in ChildSeqs(p, i + 1)}

\* Lines 101, 160: the root's node, at path ".".
BuiltTrees == DirectoriesAt("project", <<>>)

InitTree ==
    /\ built \in BuiltTrees
    /\ full_tree \in BOOLEAN
    /\ tpc = "built"
    /\ tree = built
    /\ agent_docs = <<>>
    /\ heap = Store(<<>>, built).heap
    /\ built_ref = Store(<<>>, built).ref
    /\ tree_ref = built_ref
    /\ BuildAtRest
    /\ NoMerge
    /\ ValidateAtRest
    /\ NoViz

NextTree ==
    \/ FilterTree
    \/ CollectAgentDocs

SpecTree == InitTree /\ [][NextTree]_vars

----------------------------------------------------------------------------
(* Claims about the filter *)

RECURSIVE NodesOf(_)
NodesOf(node) ==
    {node} \cup UNION {NodesOf(node.children[i]) : i \in 1..Len(node.children)}

AgentDocsIn(t) ==
    {[path |-> n.path, tokens |-> n.tokens] : n \in {m \in NodesOf(t) : m.isAgentDoc}}

DirectoriesIn(t) == {n \in NodesOf(t) : n.type = "directory"}

Filtered == tpc \in {"filtered", "collected"} /\ ~full_tree

\* C9: filter soundness for docs. Every agent doc of the tree build_tree
\* returned is in the filtered tree, at the same path and with the same
\* tokens.
FilterKeepsAgentDocs ==
    Filtered => AgentDocsIn(built) \subseteq AgentDocsIn(tree)

FilterKeepsAgentDocsWitness ==
    /\ Filtered
    /\ tree # built
    /\ \E d, e \in AgentDocsIn(tree) :
          /\ Len(d.path) = 1 /\ d.tokens = 0
          /\ Len(e.path) = 3 /\ e.tokens > 0

OwnAgentDoc(d) == \E i \in 1..Len(d.children) : d.children[i].isAgentDoc

\* C10, as stated: no directory of the filtered tree lacks both a child and
\* an agent doc of its own, also when the fallback returned the original tree.
NoEmptyDirectoryAfterFilter ==
    Filtered =>
        \A d \in DirectoriesIn(tree) : d.children # <<>> \/ OwnAgentDoc(d)

\* C10, amended: when the tree build_tree returned holds an agent doc, every
\* directory of the filtered tree has a child that survived the filter. When
\* it holds none, the fallback returns the tree as it is, and a directory of
\* it lacks a child only if it is the root of a tree that is a bare root.
NoEmptyDirectoryButBareRoot ==
    Filtered =>
        IF AgentDocsIn(built) # {}
        THEN \A d \in DirectoriesIn(tree) : d.children # <<>>
        ELSE /\ tree = built
             /\ \A d \in DirectoriesIn(tree) :
                   d.children # <<>> \/ (d = tree /\ built.children = <<>>)

NoEmptyDirectoryWitness ==
    /\ Filtered
    /\ tree # built
    /\ Cardinality(DirectoriesIn(tree)) >= 2
    /\ Cardinality(DirectoriesIn(built)) > Cardinality(DirectoriesIn(tree))

PathsOf(t) == {n.path : n \in NodesOf(t)}

\* C11: filter idempotence. Filtering the filtered tree once more gives a
\* tree with the same set of node paths.
FilterIsIdempotent ==
    Filtered => PathsOf(filter_tree_to_agent_docs(tree)) = PathsOf(tree)

FilterIsIdempotentWitness ==
    /\ Filtered
    /\ PathsOf(filter_tree_to_agent_docs(tree)) = PathsOf(tree)
    /\ PathsOf(tree) # PathsOf(built)
    /\ \E n \in NodesOf(tree) : n.type = "file" /\ ~n.isAgentDoc
    /\ Cardinality(DirectoriesIn(tree)) >= 2

\* The ids of the objects reachable from the object id.
RECURSIVE Reachable(_, _)
Reachable(h, id) ==
    {id} \cup UNION {Reachable(h, h[id].children[i]) : i \in 1..Len(h[id].children)}

\* C12: the filter does not modify its input. After the call, the object
\* build_tree returned and every object reachable from it hold the tree
\* build_tree returned, and the object tree refers to holds the filtered
\* tree.
FilterLeavesInputUnchanged ==
    Filtered => /\ Deref(heap, built_ref) = built
                /\ Deref(heap, tree_ref) = tree

\* The result is another object than the input, holds fewer nodes, and
\* shares a file object with it.
FilterLeavesInputUnchangedWitness ==
    /\ Filtered
    /\ tree_ref # built_ref
    /\ Deref(heap, built_ref) = built
    /\ tree # built
    /\ \E id \in Reachable(heap, tree_ref) \cap Reachable(heap, built_ref) :
          heap[id].type = "file"

\* C13: the fallback. When the tree build_tree returned holds no agent doc,
\* the filter returns that tree, the same object with the same content.
FilterFallsBackToInput ==
    (Filtered /\ AgentDocsIn(built) = {}) =>
        /\ tree = built
        /\ tree_ref = built_ref
        /\ Deref(heap, tree_ref) = built

FilterFallsBackToInputWitness ==
    /\ Filtered
    /\ AgentDocsIn(built) = {}
    /\ tree = built
    /\ Cardinality(DirectoriesIn(tree)) >= 2
    /\ \E n \in NodesOf(tree) : n.type = "file"

PlainFilesIn(t) == {n \in NodesOf(t) : n.type = "file" /\ ~n.isAgentDoc}

\* The directory of t that holds node n as a child.
ParentIn(t, n) ==
    CHOOSE d \in DirectoriesIn(t) : \E i \in 1..Len(d.children) : d.children[i] = n

\* C14: the sibling-inclusion rule. In a tree with at least one agent doc, a
\* plain file is in the filtered tree iff its parent directory holds an agent
\* doc anywhere in its subtree, and every agent doc file is in the filtered
\* tree.
PlainFileSurvivesIffParentHasDoc ==
    (Filtered /\ AgentDocsIn(built) # {}) =>
        /\ \A f \in PlainFilesIn(built) :
              f \in NodesOf(tree) <=> has_agent_doc(ParentIn(built, f))
        /\ \A n \in NodesOf(built) : n.isAgentDoc => n \in NodesOf(tree)

\* A plain file survives next to a directory that holds the only agent docs
\* of its parent, and another plain file is dropped.
PlainFileSurvivesWitness ==
    /\ Filtered
    /\ AgentDocsIn(built) # {}
    /\ \E f \in PlainFilesIn(built) \cap NodesOf(tree) :
          /\ ~OwnAgentDoc(ParentIn(built, f))
          /\ has_agent_doc(ParentIn(built, f))
    /\ PlainFilesIn(built) \ NodesOf(tree) # {}

----------------------------------------------------------------------------
(* visualize.py: the script of the generated page (lines 949-2041)         *)
(*                                                                         *)
(* A path string is modelled as the sequence of its parts between "/":     *)
(* "." is <<".">>, "a/b" is <<"a", "b">>, "./CLAUDE.md" is                 *)
(* <<".", "CLAUDE.md">>. path.split('/') is then the sequence itself and   *)
(* s + '/' + name is Append(s, name).                                      *)
(* A JavaScript number is a record [big, n]: the integer n when big is     *)
(* FALSE, and the double 2^60 + 256 * n when big is TRUE (the doubles from *)
(* 2^60 up to 2^61 are 256 apart).                                         *)
(* The drawing of the tree (D3), the header, the legend and the list of    *)
(* agent docs are not modelled.                                            *)

\* tree.py lines 101, 126, 138, 160: the "path" of a node in the tree
\* artifact; the root's is ".", and a path below the root has no "./" in
\* front.
PathString(p) == IF p = <<>> THEN <<".">> ELSE p

\* String.prototype.toLowerCase, on the file names of the model.
toLowerCase(name) ==
    CASE name = "CLAUDE.md" -> "claude.md"
      [] name = "AGENTS.md" -> "agents.md"
      [] OTHER -> name

\* Map.prototype.set.
MapSet(m, k, v) == [x \in DOMAIN m \cup {k} |-> IF x = k THEN v ELSE m[x]]

RECURSIVE indexTree(_, _)
RECURSIVE IndexChildren(_, _, _)

\* Lines 958-967: agentDocTokens after indexTree(node), from the map m.
indexTree(node, m) ==
    LET path == PathString(node.path)
    IN  IndexChildren(node, 1,
            IF node.isAgentDoc THEN MapSet(m, path, node.tokens) ELSE m)

\* Lines 964-966.
IndexChildren(node, i, m) ==
    IF i > Len(node.children) THEN m
    ELSE IndexChildren(node, i + 1, indexTree(node.children[i], m))

\* Lines 977-987, for activeDocTypeFilter = filter.
matchesDocTypeFilter(filter, path) ==
    IF filter = "all" THEN TRUE
    ELSE LET filename == toLowerCase(path[Len(path)])
         IN  IF filter = "claude" THEN filename = "claude.md"
             ELSE IF filter = "agents" THEN filename = "agents.md"
             ELSE TRUE

\* A check that assigns the tokens to the total.
AddDocAssigning(acc, index, filter, path) ==
    IF path \in DOMAIN index /\ matchesDocTypeFilter(filter, path)
    THEN [total     |-> index[path],
          breakdown |-> Append(acc.breakdown,
                               [file |-> path, tokens |-> index[path]])]
    ELSE acc

\* Lines 1020-1024, 1039-1048: total and breakdown after the check of one
\* path.
AddDoc(acc, index, filter, path) ==
    IF path \in DOMAIN index /\ matchesDocTypeFilter(filter, path)
    THEN [total     |-> acc.total + index[path],
          breakdown |-> Append(acc.breakdown,
                               [file |-> path, tokens |-> index[path]])]
    ELSE acc

\* A check of the root that adds `./${docName}` and docName alike.
AddRootDocBothForms(acc, index, filter, docName) ==
    AddDoc(AddDoc(acc, index, filter, <<".", docName>>), index, filter, <<docName>>)

\* Lines 1018-1026: the first of `./${docName}` and docName that is indexed
\* and passes the filter is added, and the loop over rootPaths ends.
AddRootDoc(acc, index, filter, docName) ==
    LET first == AddDoc(acc, index, filter, <<".", docName>>)
    IN  IF first # acc THEN first
        ELSE AddDoc(acc, index, filter, <<docName>>)

\* A walk that stops at the first directory below the root.
RECURSIVE WalkDownOneLevel(_, _, _, _, _, _)
WalkDownOneLevel(acc, index, filter, parts, i, currentPath) ==
    IF i > Len(parts) \/ currentPath # <<".">> THEN acc
    ELSE IF parts[i] = "." THEN
        WalkDownOneLevel(acc, index, filter, parts, i + 1, currentPath)
    ELSE LET current == <<parts[i]>>
             claudePath == Append(current, "CLAUDE.md")
             agentsPath == Append(current, "AGENTS.md")
         IN  WalkDownOneLevel(
                 AddDoc(AddDoc(acc, index, filter, claudePath),
                        index, filter, agentsPath),
                 index, filter, parts, i + 1, current)

\* Lines 1030-1049: the loop over parts, from the i-th on.
RECURSIVE WalkDown(_, _, _, _, _, _)
WalkDown(acc, index, filter, parts, i, currentPath) ==
    IF i > Len(parts) THEN acc
    ELSE IF parts[i] = "." THEN
        WalkDown(acc, index, filter, parts, i + 1, currentPath)
    ELSE LET current == IF currentPath = <<".">> THEN <<parts[i]>>
                        ELSE Append(currentPath, parts[i])
             claudePath == Append(current, "CLAUDE.md")
             agentsPath == Append(current, "AGENTS.md")
         IN  WalkDown(AddDoc(AddDoc(acc, index, filter, claudePath),
                             index, filter, agentsPath),
                      index, filter, parts, i + 1, current)

\* Lines 1011-1052, for agentDocTokens = index and activeDocTypeFilter =
\* filter.
getCumulativeTokens(index, filter, path) ==
    LET start == [total |-> 0, breakdown |-> <<>>]
        root  == AddRootDoc(AddRootDoc(start, index, filter, "CLAUDE.md"),
                            index, filter, "AGENTS.md")
    IN  WalkDown(root, index, filter, path, 1, <<".">>)

----------------------------------------------------------------------------
(* visualize.py: thresholds and classification *)

\* The number n, and the double 2^60 + 256 * n.
Num(n) == [big |-> FALSE, n |-> n]

Big(n) == [big |-> TRUE, n |-> n]

\* x < y and x >= y on numbers.
Less(x, y) == IF x.big = y.big THEN x.n < y.n ELSE y.big

GreaterEq(x, y) == ~Less(x, y)

\* x + k for an integer k in 0..255. Below 2^53 the sum is exact. From 2^60
\* on the exact sum lies between two doubles that are 256 apart and is
\* rounded to the nearest of them, to the even one on a tie.
Plus(x, k) ==
    IF ~x.big THEN Num(x.n + k)
    ELSE IF 2 * k < 256 THEN x
    ELSE IF 2 * k > 256 THEN Big(x.n + 1)
    ELSE IF x.n % 2 = 0 THEN x ELSE Big(x.n + 1)

\* Lines 1056-1057.
DefaultGreen == 1000

DefaultYellow == 2000

\* Lines 1088-1089, 1097-1098: what stands in for an input that parseInt
\* gives NaN or 0 for.
FallbackGreen == 500

FallbackYellow == 1500

\* Line 1094.
YellowStep == 100

\* A classification that puts a value equal to a ceiling in the lower band.
getTokenColorInclusive(thresholds, tokens) ==
    IF ~Less(thresholds.green, Num(tokens)) THEN "var(--green)"
    ELSE IF ~Less(thresholds.yellow, Num(tokens)) THEN "var(--yellow)"
    ELSE "var(--red)"

\* Lines 1061-1065.
getTokenColor(thresholds, tokens) ==
    IF Less(Num(tokens), thresholds.green) THEN "var(--green)"
    ELSE IF Less(Num(tokens), thresholds.yellow) THEN "var(--yellow)"
    ELSE "var(--red)"

\* Lines 1068-1072.
getTokenStatus(thresholds, tokens) ==
    IF Less(Num(tokens), thresholds.green) THEN "OK"
    ELSE IF Less(Num(tokens), thresholds.yellow) THEN "Warning"
    ELSE "High"

\* The value of a number input is None when it is empty (or holds no number)
\* and <<x>> when it holds the decimal digits of the number x. parseInt
\* gives NaN, modelled as None, for the first and x for the second.
parseInt(value) == value

\* parseInt(value) || fallback: NaN and 0 are falsy.
OrFallback(parsed, fallback) ==
    IF parsed = None \/ parsed = <<Num(0)>> THEN Num(fallback) ELSE parsed[1]

\* input.value = x, for a number x below 10^21: the value becomes the
\* decimal digits of x.
ToValue(x) == <<x>>

----------------------------------------------------------------------------
(* visualize.py: heaviest paths *)

\* Array.prototype.slice(0, n).
slice(s, n) == SubSeq(s, 1, IF n < Len(s) THEN n ELSE Len(s))

\* The array with x inserted behind every element that is not lighter.
InsertByTokens(s, x) ==
    LET k == Cardinality({i \in 1..Len(s) : s[i].cumulativeTokens >= x.cumulativeTokens})
    IN  SubSeq(s, 1, k) \o <<x>> \o SubSeq(s, k + 1, Len(s))

\* Array.prototype.sort((a, b) => b.cumulativeTokens - a.cumulativeTokens),
\* which is stable.
RECURSIVE SortByTokens(_)
SortByTokens(s) ==
    IF s = <<>> THEN <<>>
    ELSE InsertByTokens(SortByTokens(SubSeq(s, 1, Len(s) - 1)), s[Len(s)])

\* Lines 1407, 1209.
TopPathsShown == 10

TopPathsCopied == 10

\* An entry of the ranking with the total the artifact holds for it.
Precomputed(index, filter, item) == item

\* Lines 1392-1395: an entry of the ranking with its total recomputed under
\* the active filter.
Recalculated(index, filter, item) ==
    [path |-> item.path,
     cumulativeTokens |-> getCumulativeTokens(index, filter, item.path).total]

\* Lines 1380-1425: None when the section is hidden, else <<the items of
\* the list>>.
renderHeaviestPaths(pwd, index, filter, thresholds) ==
    IF pwd = None \/ pwd[1].ranking = <<>> THEN None
    ELSE LET ranking == pwd[1].ranking
             mapped  == [i \in 1..Len(ranking) |->
                            Recalculated(index, filter, ranking[i])]
             Positive(item) == item.cumulativeTokens > 0
             recalculatedPaths == SortByTokens(SelectSeq(mapped, Positive))
             topPaths == slice(recalculatedPaths, TopPathsShown)
         IN  <<[i \in 1..Len(topPaths) |->
                  [path  |-> topPaths[i].path,
                   cumulativeTokens |-> topPaths[i].cumulativeTokens,
                   color |-> getTokenColor(thresholds, topPaths[i].cumulativeTokens)]]>>

\* Lines 1206-1225: the rows of the report handed to copyToClipboard, or
\* None when the function returns at line 1207.
copyHeaviestPathsReport(pwd, thresholds) ==
    IF pwd = None THEN None
    ELSE LET topPaths == slice(pwd[1].ranking, TopPathsCopied)
         IN  <<[i \in 1..Len(topPaths) |->
                  [rank   |-> i,
                   path   |-> topPaths[i].path,
                   cumulativeTokens |-> topPaths[i].cumulativeTokens,
                   status |-> getTokenStatus(thresholds, topPaths[i].cumulativeTokens)]]>>

\* Lines 1794-1807: what selectPath displays for a path.
PathInfo(index, filter, thresholds, path) ==
    LET r == getCumulativeTokens(index, filter, path)
    IN  [path |-> path, total |-> r.total,
         color |-> getTokenColor(thresholds, r.total),
         breakdown |-> r.breakdown]

----------------------------------------------------------------------------
(* The path-weights artifact (visualize.py --path-weights)                 *)
(*                                                                         *)
(* The program that writes the artifact is not among the sources. Its      *)
(* ranking is modelled from the specification: the directories that are an *)
(* ancestor of an agent doc, with the sum of the tokens of the CLAUDE.md   *)
(* and AGENTS.md docs on the chain from the root to the directory, those   *)
(* with a sum above 0 only, heaviest first and ties by ascending path.     *)
(* pathWeights and metadata are not read by the functions modelled here.   *)

CanonicalNames == {"CLAUDE.md", "AGENTS.md"}

IsPrefix(p, q) == Len(p) <= Len(q) /\ SubSeq(q, 1, Len(p)) = p

DirectoryOf(p) == SubSeq(p, 1, Len(p) - 1)

RECURSIVE SumTokens(_)
SumTokens(nodes) ==
    IF nodes = {} THEN 0
    ELSE LET n == CHOOSE x \in nodes : TRUE
         IN  n.tokens + SumTokens(nodes \ {n})

\* The cumulative cost of the directory at path p of the tree t.
CumulativeCost(t, p) ==
    SumTokens({n \in NodesOf(t) : /\ n.isAgentDoc
                                  /\ n.name \in CanonicalNames
                                  /\ IsPrefix(DirectoryOf(n.path), p)})

\* The directories of a tree, parents first and siblings by name.
RECURSIVE PreOrderDirectories(_)
RECURSIVE PreOrderChildren(_, _)
PreOrderDirectories(node) ==
    IF node.type = "directory" THEN <<node>> \o PreOrderChildren(node, 1)
    ELSE <<>>

PreOrderChildren(node, i) ==
    IF i > Len(node.children) THEN <<>>
    ELSE PreOrderDirectories(node.children[i]) \o PreOrderChildren(node, i + 1)

rank(t, withRoot) ==
    LET dirs == PreOrderDirectories(t)
        Ranked(d) == /\ has_agent_doc(d)
                     /\ withRoot \/ d.path # <<>>
                     /\ CumulativeCost(t, d.path) > 0
        ranked == SelectSeq(dirs, Ranked)
    IN  SortByTokens([i \in 1..Len(ranked) |->
                         [path |-> PathString(ranked[i].path),
                          cumulativeTokens |-> CumulativeCost(t, ranked[i].path)]])

PathWeightsArtifact(t, withRoot) == [ranking |-> rank(t, withRoot)]

----------------------------------------------------------------------------
(* visualize.py: the page, from the end of the script's initialisation *)

\* Lines 974, 2025-2028, 1055-1058, 880, 887: the page of tree t and
\* path-weights data pwd after the script has run.
PageLoaded(t, pwd) ==
    /\ TREE_DATA = t
    /\ PATH_WEIGHTS_DATA = pwd
    /\ agentDocTokens = indexTree(t, <<>>)
    /\ activeDocTypeFilter = "all"
    /\ selectedPath = None
    /\ path_info = None
    /\ tokenThresholds = [green |-> Num(DefaultGreen), yellow |-> Num(DefaultYellow)]
    /\ greenInput = ToValue(Num(DefaultGreen))
    /\ yellowInput = ToValue(Num(DefaultYellow))
    /\ heaviest_paths = renderHeaviestPaths(pwd, agentDocTokens, "all", tokenThresholds)
    /\ copied_report = None

\* Lines 990-1008.
SetDocTypeFilter ==
    \E filterType \in {"all", "claude", "agents"} :
        /\ TREE_DATA # None
        /\ activeDocTypeFilter' = filterType
        /\ heaviest_paths' = renderHeaviestPaths(PATH_WEIGHTS_DATA, agentDocTokens,
                                                 filterType, tokenThresholds)
        /\ path_info' = IF selectedPath # None
                        THEN <<PathInfo(agentDocTokens, filterType, tokenThresholds,
                                        selectedPath[1])>>
                        ELSE path_info
        /\ UNCHANGED <<TREE_DATA, PATH_WEIGHTS_DATA, agentDocTokens, selectedPath,
                       copied_report, tokenThresholds, greenInput, yellowInput,
                       mergeVars, validateVars, treeVars>>

\* The paths of the directories of the tree, which a click on a node or on
\* an item of the heaviest paths selects.
DirectoryPaths(t) == {PathString(d.path) : d \in DirectoriesIn(t)}

\* Lines 1764-1814.
SelectPath ==
    \E path \in DirectoryPaths(TREE_DATA) :
        /\ TREE_DATA # None
        /\ selectedPath' = <<path>>
        /\ path_info' = <<PathInfo(agentDocTokens, activeDocTypeFilter,
                                   tokenThresholds, path)>>
        /\ UNCHANGED <<TREE_DATA, PATH_WEIGHTS_DATA, agentDocTokens,
                       activeDocTypeFilter, heaviest_paths, copied_report,
                       tokenThresholds, greenInput, yellowInput,
                       mergeVars, validateVars, treeVars>>

\* Lines 1206-1225, on a click on the copy button of the section, which is
\* displayed with the list.
CopyHeaviestPathsReport ==
    /\ heaviest_paths # None
    /\ copied_report' = copyHeaviestPathsReport(PATH_WEIGHTS_DATA, tokenThresholds)
    /\ UNCHANGED <<TREE_DATA, PATH_WEIGHTS_DATA, agentDocTokens,
                   activeDocTypeFilter, selectedPath, path_info, heaviest_paths,
                   tokenThresholds, greenInput, yellowInput,
                   mergeVars, validateVars, treeVars>>

\* The values an input event leaves in a threshold input: nothing, 0,
\* numbers below 0, numbers around the defaults and the fallbacks, and 2^60.
ThresholdValues ==
    {None} \cup {<<Num(n)>> : n \in {0 - 200, 0 - 100, 0, 1, 500, 1000, 1500, 1900, 2000}}
           \cup {<<Big(0)>>}

\* Lines 2031-2032, 1083-1132: an input event on one of the two inputs and
\* updateThresholds.
UpdateThresholds ==
    \E which \in {"green", "yellow"}, value \in ThresholdValues :
        LET green     == IF which = "green" THEN value ELSE greenInput
            yellow    == IF which = "yellow" THEN value ELSE yellowInput
            greenVal  == OrFallback(parseInt(green), FallbackGreen)
            yellowVal == OrFallback(parseInt(yellow), FallbackYellow)
            adjusted  == IF GreaterEq(greenVal, yellowVal)
                         THEN ToValue(Plus(greenVal, YellowStep))
                         ELSE yellow
            thresholds == [green  |-> OrFallback(parseInt(green), FallbackGreen),
                           yellow |-> OrFallback(parseInt(adjusted), FallbackYellow)]
        IN  /\ TREE_DATA # None
            /\ greenInput' = green
            /\ yellowInput' = adjusted
            /\ tokenThresholds' = thresholds
            /\ heaviest_paths' = renderHeaviestPaths(PATH_WEIGHTS_DATA, agentDocTokens,
                                                     activeDocTypeFilter, thresholds)
            /\ path_info' = IF selectedPath # None
                            THEN <<PathInfo(agentDocTokens, activeDocTypeFilter,
                                            thresholds, selectedPath[1])>>
                            ELSE path_info
            /\ UNCHANGED <<TREE_DATA, PATH_WEIGHTS_DATA, agentDocTokens,
                           activeDocTypeFilter, selectedPath, copied_report,
                           mergeVars, validateVars, treeVars>>

\* The names of a directory's entries in sorted order (tree.py line 114).
VizNames == <<"AGENTS.md", "CLAUDE.md", "a", "b", "claude.md">>

VizSubdirs(p) ==
    IF p = <<>> THEN {"a"} ELSE IF p = <<"a">> THEN {"b"} ELSE {}

\* The token counts an agent doc named n can have in the directory at p.
VizTokens(p, n) ==
    CASE n = "CLAUDE.md" -> IF p = <<>> THEN {0, 800} ELSE {800}
      [] n = "AGENTS.md" -> IF p = <<"a", "b">> THEN {0, 1200} ELSE {1200}
      [] n = "claude.md" -> IF p = <<"a">> THEN {300} ELSE {}
      [] OTHER -> {}

RECURSIVE VizChildSeqs(_, _)
VizChildSeqs(p, i) ==
    IF i > Len(VizNames) THEN {<<>>}
    ELSE LET n == VizNames[i]
             q == Append(p, n)
             present ==
                {<<AgentDocNode(n, q, t)>> : t \in VizTokens(p, n)}
                \cup (IF n \in VizSubdirs(p)
                      THEN {<<DirectoryNode(n, q, cs)>> :
                                cs \in VizChildSeqs(q, 1) \ {<<>>}}
                      ELSE {})
         IN  {o \o rest : o \in {<<>>} \cup present, rest \in VizChildSeqs(p, i + 1)}

\* Trees of a root, a directory a and a directory a/b, with agent docs only.
VizTrees == {DirectoryNode("project", <<>>, cs) : cs \in VizChildSeqs(<<>>, 1)}

WideNames == <<"w01", "w02", "w03", "w04", "w05", "w06",
               "w07", "w08", "w09", "w10", "w11">>

\* A tree of a root with a CLAUDE.md and one directory more than the list of
\* heaviest paths shows, each with a CLAUDE.md heavier than the one before.
WideTree ==
    DirectoryNode("project", <<>>,
        <<AgentDocNode("CLAUDE.md", <<"CLAUDE.md">>, 800)>> \o
        [i \in 1..Len(WideNames) |->
            DirectoryNode(WideNames[i], <<WideNames[i]>>,
                <<AgentDocNode("CLAUDE.md", <<WideNames[i], "CLAUDE.md">>, 100 * i)>>)])

\* Lines 2082-2084: --path-weights is optional.
PathWeightsData(t) ==
    {None} \cup {<<PathWeightsArtifact(t, withRoot)>> : withRoot \in BOOLEAN}

InitViz ==
    /\ \E t \in VizTrees \cup {WideTree} :
          \E pwd \in PathWeightsData(t) : PageLoaded(t, pwd)
    /\ NoMerge
    /\ ValidateAtRest
    /\ NoTree

NextViz ==
    \/ SetDocTypeFilter
    \/ SelectPath
    \/ CopyHeaviestPathsReport

SpecViz == InitViz /\ [][NextViz]_vars

\* The scenario of two directories: a/CLAUDE.md of 800 tokens and
\* a/b/AGENTS.md of 1200 tokens.
ScenarioTree ==
    DirectoryNode("project", <<>>,
        <<DirectoryNode("a", <<"a">>,
            <<AgentDocNode("CLAUDE.md", <<"a", "CLAUDE.md">>, 800),
              DirectoryNode("b", <<"a", "b">>,
                <<AgentDocNode("AGENTS.md", <<"a", "b", "AGENTS.md">>, 1200)>>)>>)>>)

InitThresholds ==
    /\ PageLoaded(ScenarioTree, <<PathWeightsArtifact(ScenarioTree, FALSE)>>)
    /\ NoMerge
    /\ ValidateAtRest
    /\ NoTree

NextThresholds ==
    \/ UpdateThresholds
    \/ SelectPath

SpecThresholds == InitThresholds /\ [][NextThresholds]_vars

----------------------------------------------------------------------------
(* Claims about the cumulative tokens *)

\* The path P is the path of an ancestor directory of the directory at Q.
IsAncestorPath(P, Q) ==
    /\ P # Q
    /\ P = <<".">> \/ IsPrefix(P, Q)

\* getCumulativeTokens(path).total in the current state of the page.
TotalOf(path) ==
    getCumulativeTokens(agentDocTokens, activeDocTypeFilter, path).total

\* C15: aggregation monotonicity. Under the active filter and the index of
\* the page, the total of a directory is at least the total of each of its
\* ancestors.
CumulativeTokensMonotone ==
    TREE_DATA # None =>
        \A P, Q \in DirectoryPaths(TREE_DATA) :
            IsAncestorPath(P, Q) => TotalOf(Q) >= TotalOf(P)

\* The directory a/b is selected under a filter, and its total is above that
\* of a, which is above that of the root, which is above 0.
CumulativeTokensMonotoneWitness ==
    /\ TREE_DATA # None
    /\ activeDocTypeFilter # "all"
    /\ selectedPath = <<<<"a", "b">>>>
    /\ path_info[1].total = TotalOf(<<"a", "b">>)
    /\ TotalOf(<<"a", "b">>) > TotalOf(<<"a">>)
    /\ TotalOf(<<"a">>) > TotalOf(<<".">>)
    /\ TotalOf(<<".">>) > 0

\* The path string d is that of a file at the root or in a directory on the
\* chain from the root to the directory at path string P.
OnChain(d, P) ==
    \/ Len(d) = 1
    \/ P # <<".">> /\ IsPrefix(DirectoryOf(d), P)

\* The doc at path string d passes the filter: its base name, in lower case,
\* is that of the family the filter accepts.
PassesFilter(filter, d) ==
    \/ filter = "all"
    \/ filter = "claude" /\ toLowerCase(d[Len(d)]) = "claude.md"
    \/ filter = "agents" /\ toLowerCase(d[Len(d)]) = "agents.md"

FilesOf(breakdown) == {breakdown[i].file : i \in 1..Len(breakdown)}

BreakdownOf(path) ==
    getCumulativeTokens(agentDocTokens, activeDocTypeFilter, path).breakdown

\* C16: for every directory P of the tree, an agent doc of the index that
\* lies at the root or in a directory on the chain from the root to P is in
\* the breakdown of P iff it passes the active filter, its base name taken
\* without regard to case.
IndexedDocContributesIffPassesFilter ==
    TREE_DATA # None =>
        \A P \in DirectoryPaths(TREE_DATA) :
            \A d \in DOMAIN agentDocTokens :
                OnChain(d, P) =>
                    (d \in FilesOf(BreakdownOf(P))
                        <=> PassesFilter(activeDocTypeFilter, d))

\* The agent docs of the tree that are named CLAUDE.md or AGENTS.md, lie at
\* the root or in a directory from the root down to P, and pass the filter.
CanonicalDocsOnChain(t, filter, P) ==
    {n \in NodesOf(t) : /\ n.isAgentDoc
                        /\ n.name \in CanonicalNames
                        /\ OnChain(PathString(n.path), P)
                        /\ PassesFilter(filter, PathString(n.path))}

\* C17: with a/CLAUDE.md of 800 tokens and a/b/AGENTS.md of 1200 tokens, the
\* total of a/b is 2000 and that of a is 800 under the filter that accepts
\* all, and the total of a/b is 800 under the filter that excludes AGENTS.md.
\* In every tree the total of a directory P is the sum of the tokens of the
\* CLAUDE.md and AGENTS.md docs at the root and in each directory from the
\* root down to P that pass the filter.
TotalIsSumOverChain ==
    TREE_DATA # None =>
        /\ \A P \in DirectoryPaths(TREE_DATA) :
              TotalOf(P) =
                  SumTokens(CanonicalDocsOnChain(TREE_DATA, activeDocTypeFilter, P))
        /\ TREE_DATA = ScenarioTree =>
              /\ activeDocTypeFilter = "all" =>
                    TotalOf(<<"a", "b">>) = 2000 /\ TotalOf(<<"a">>) = 800
              /\ activeDocTypeFilter = "claude" => TotalOf(<<"a", "b">>) = 800

\* The directory a/b of the scenario is selected and displayed with 800
\* tokens under the filter that excludes AGENTS.md.
TotalIsSumOverChainWitness ==
    /\ TREE_DATA = ScenarioTree
    /\ activeDocTypeFilter = "claude"
    /\ selectedPath = <<<<"a", "b">>>>
    /\ path_info[1].total = 800
    /\ path_info[1].breakdown = <<[file |-> <<"a", "CLAUDE.md">>, tokens |-> 800]>>

----------------------------------------------------------------------------
(* Claims about the ranking *)

\* The list of heaviest paths as displayed; nothing when the section is
\* hidden.
Shown == IF heaviest_paths = None THEN <<>> ELSE heaviest_paths[1]

ShownPaths == {Shown[i].path : i \in 1..Len(Shown)}

\* The ranking of the artifact, and the position of a path in it.
Ranking == IF PATH_WEIGHTS_DATA = None THEN <<>> ELSE PATH_WEIGHTS_DATA[1].ranking

PositionOf(path) == CHOOSE i \in 1..Len(Ranking) : Ranking[i].path = path

\* The list shows no total of 0, is sorted by total descending, and keeps
\* entries of equal total in the order of the artifact.
ShownIsSorted ==
    /\ \A i \in 1..Len(Shown) :
          /\ Shown[i].path \in {Ranking[k].path : k \in 1..Len(Ranking)}
          /\ Shown[i].cumulativeTokens = TotalOf(Shown[i].path)
          /\ Shown[i].cumulativeTokens > 0
    /\ \A i, j \in 1..Len(Shown) :
          i < j => /\ Shown[i].cumulativeTokens >= Shown[j].cumulativeTokens
                   /\ Shown[i].cumulativeTokens = Shown[j].cumulativeTokens
                        => PositionOf(Shown[i].path) < PositionOf(Shown[j].path)

\* C18, as stated: on a page with path-weights data, the ranking displayed
\* holds every directory below the root that is an ancestor of an agent doc
\* and has a total above 0 under the active filter, holds no directory with
\* a total of 0, and is sorted by total descending with ties in stable order.
RankingHoldsEveryDirectory ==
    PATH_WEIGHTS_DATA # None =>
        /\ \A d \in DirectoriesIn(TREE_DATA) :
              (d.path # <<>> /\ has_agent_doc(d) /\ TotalOf(PathString(d.path)) > 0)
                  => PathString(d.path) \in ShownPaths
        /\ ShownIsSorted

\* The entries of the artifact's ranking with a total above 0 under the
\* active filter.
Candidates == {k \in 1..Len(Ranking) : TotalOf(Ranking[k].path) > 0}

\* C18, amended: on a page with path-weights data, the ranking displayed
\* holds the heaviest 10 (or all, when they are fewer) of the directories of
\* the artifact's ranking that have a total above 0 under the active filter:
\* a directory left out is no heavier than any directory shown. It holds no
\* directory with a total of 0 and is sorted by the total under the active
\* filter, descending, with ties in the order of the artifact.
RankingHoldsHeaviestTen ==
    PATH_WEIGHTS_DATA # None =>
        /\ ShownIsSorted
        /\ Len(Shown) = IF Cardinality(Candidates) < TopPathsShown
                        THEN Cardinality(Candidates) ELSE TopPathsShown
        /\ \A k \in Candidates :
              Ranking[k].path \notin ShownPaths =>
                  \A i \in 1..Len(Shown) :
                      Shown[i].cumulativeTokens >= TotalOf(Ranking[k].path)

\* After a change of the filter, 10 of 11 directories with a total above 0
\* are displayed.
RankingHoldsHeaviestTenWitness ==
    /\ PATH_WEIGHTS_DATA # None
    /\ activeDocTypeFilter = "claude"
    /\ Cardinality(Candidates) > TopPathsShown
    /\ Len(Shown) = TopPathsShown
    /\ Shown[1].cumulativeTokens > Shown[Len(Shown)].cumulativeTokens

\* C19: the ranking is never stale. After every step of the page, each total
\* of the list of heaviest paths displayed is the total of its path under
\* the active filter, and each total of a report the step has handed to the
\* clipboard is the total of its path under the active filter.
RankingNeverStale ==
    [][/\ heaviest_paths' # None =>
             \A i \in 1..Len(heaviest_paths'[1]) :
                 heaviest_paths'[1][i].cumulativeTokens =
                     getCumulativeTokens(agentDocTokens', activeDocTypeFilter',
                                         heaviest_paths'[1][i].path).total
       /\ (copied_report' # copied_report /\ copied_report' # None) =>
             \A i \in 1..Len(copied_report'[1]) :
                 copied_report'[1][i].cumulativeTokens =
                     getCumulativeTokens(agentDocTokens', activeDocTypeFilter',
                                         copied_report'[1][i].path).total]_vars

----------------------------------------------------------------------------
(* Claims about the thresholds *)

\* C20: threshold auto-heal. From the defaults on and after every update,
\* whatever the two inputs hold, the stored green threshold is below the
\* stored yellow threshold.
ThresholdsStayOrdered ==
    tokenThresholds # None => Less(tokenThresholds.green, tokenThresholds.yellow)

\* The same for thresholds below 2^53, where greenVal + 100 is exact.
SmallThresholdsStayOrdered ==
    (tokenThresholds # None /\ ~tokenThresholds.green.big)
        => Less(tokenThresholds.green, tokenThresholds.yellow)

\* The pairs of a token count and the colour displayed with it: the total of
\* the selected path and the totals of the list of heaviest paths.
Coloured ==
    (IF path_info = None THEN {}
     ELSE {[tokens |-> path_info[1].total, color |-> path_info[1].color]})
    \cup {[tokens |-> Shown[i].cumulativeTokens, color |-> Shown[i].color] :
              i \in 1..Len(Shown)}

\* C21: classification in three bands. A token count displayed is green iff
\* it is below the current green ceiling, yellow iff it is not and is below
\* the current yellow ceiling, and red iff it is below neither; a count equal
\* to a ceiling is in the higher band.
ClassificationInThreeBands ==
    tokenThresholds # None =>
        \A c \in Coloured :
            LET belowGreen  == Less(Num(c.tokens), tokenThresholds.green)
                belowYellow == Less(Num(c.tokens), tokenThresholds.yellow)
            IN  /\ c.color = "var(--green)" <=> belowGreen
                /\ c.color = "var(--yellow)" <=> (~belowGreen /\ belowYellow)
                /\ c.color = "var(--red)" <=> (~belowGreen /\ ~belowYellow)

\* After an update of the thresholds the selected path's total equals the
\* green ceiling and is yellow, and an entry of the list is green.
ClassificationWitness ==
    /\ path_info # None
    /\ tokenThresholds.green = Num(path_info[1].total)
    /\ tokenThresholds.green # Num(DefaultGreen)
    /\ path_info[1].color = "var(--yellow)"
    /\ \E i \in 1..Len(Shown) : Shown[i].color = "var(--green)"

----------------------------------------------------------------------------
(* tree.py: build_tree *)

(* An entry of the file system is a record [name, kind, entries, ok,        *)
(* tokens]. kind is "dir", "file" or "other". Of a directory, entries is    *)
(* what os.listdir returns, in the order it returns it, and ok is FALSE     *)
(* when os.listdir raises PermissionError. Of a file, tokens is the         *)
(* tokenizer's count of its content and ok is FALSE when read_text raises.  *)

\* Lines 27-32.
AGENT_DOC_PATTERNS == {"CLAUDE.md", "AGENTS.md", "claude.md", "agents.md"}

\* Lines 35-54.
SKIP_DIRS ==
    {"node_modules", ".git", "__pycache__", ".venv", "venv", ".tox", "dist",
     "build", ".next", ".nuxt", ".cache", "coverage", ".nyc_output", "target",
     ".idea", ".vscode", ".claude", "claude-tree"}

\* Lines 57-65.
SKIP_EXTENSIONS ==
    {".png", ".jpg", ".jpeg", ".gif", ".ico", ".svg", ".woff", ".woff2",
     ".ttf", ".eot", ".pdf", ".zip", ".tar", ".gz", ".rar", ".exe", ".dll",
     ".so", ".dylib", ".pyc", ".pyo", ".class", ".db", ".sqlite", ".sqlite3",
     ".lock", ".sum"}

\* The names of the entries, in Python's order of str: by code point, "."
\* before the upper-case letters and those before the lower-case ones.
CodePointOrder ==
    <<".claude", ".hidden", "CLAUDE.md", "Claude.md", "claude.md", "lib",
      "logo.png", "main.py", "node_modules">>

NameLess(a, b) ==
    \E i, j \in 1..Len(CodePointOrder) :
        /\ CodePointOrder[i] = a
        /\ CodePointOrder[j] = b
        /\ i < j

\* Line 127: entry.startswith(".").
startswith_dot(entry) == entry \in {".claude", ".hidden"}

\* Line 85: os.path.splitext(filename.lower()), the extension.
splitext_lower(filename) ==
    CASE filename \in {"CLAUDE.md", "Claude.md", "claude.md"} -> ".md"
      [] filename = "logo.png" -> ".png"
      [] filename = "main.py" -> ".py"
      [] OTHER -> ""

\* Lines 78-80.
is_agent_doc(filename) == filename \in AGENT_DOC_PATTERNS

\* Lines 83-86.
should_skip_file(filename) == splitext_lower(filename) \in SKIP_EXTENSIONS

\* os.listdir without the sort of line 114.
listdir(entries) == entries

RECURSIVE sorted_listdir(_)

InsertByName(s, e) ==
    LET before == SelectSeq(s, LAMBDA x : NameLess(x.name, e.name))
        after  == SelectSeq(s, LAMBDA x : ~NameLess(x.name, e.name))
    IN  before \o <<e>> \o after

\* Line 114: sorted(os.listdir(dir_path)).
sorted_listdir(entries) ==
    IF entries = <<>> THEN <<>>
    ELSE InsertByName(sorted_listdir(Tail(entries)), Head(entries))

\* The node of a file, were a file that cannot be read left out.
file_node_if_readable(e, entry_rel_path) ==
    IF is_agent_doc(e.name)
    THEN [node |-> IF e.ok THEN <<AgentDocNode(e.name, entry_rel_path, e.tokens)>>
                   ELSE <<>>,
          warnings |-> <<>>]
    ELSE [node |-> <<FileNode(e.name, entry_rel_path)>>, warnings |-> <<>>]

\* Lines 140-156: the node of a file, and the warning if it could not be read.
file_node(e, entry_rel_path) ==
    IF is_agent_doc(e.name)
    THEN [node |-> <<AgentDocNode(e.name, entry_rel_path,
                                  IF e.ok THEN e.tokens ELSE 0)>>,
          warnings |-> IF e.ok THEN <<>>
                       ELSE <<Line("Warning: Could not read", <<entry_rel_path>>)>>]
    ELSE [node |-> <<FileNode(e.name, entry_rel_path)>>, warnings |-> <<>>]

RECURSIVE process_directory(_, _, _)
RECURSIVE ProcessEntries(_, _, _, _)

\* Lines 103-158. The result is the node and the warnings printed.
process_directory(d, name, rel_path) ==
    IF ~d.ok THEN [node |-> DirectoryNode(name, rel_path, <<>>), warnings |-> <<>>]
    ELSE LET r == ProcessEntries(sorted_listdir(d.entries), rel_path, 1,
                                 [children |-> <<>>, warnings |-> <<>>])
         IN  [node |-> DirectoryNode(name, rel_path, r.children),
              warnings |-> r.warnings]

\* Lines 118-156: the loop over the entries, from the i-th on.
ProcessEntries(entries, rel_path, i, acc) ==
    IF i > Len(entries) THEN acc
    ELSE LET e == entries[i]
             entry_rel_path == Append(rel_path, e.name)
             next ==
                IF e.kind = "dir"
                THEN IF e.name \in SKIP_DIRS THEN acc
                     ELSE IF startswith_dot(e.name) /\ e.name # ".claude" THEN acc
                     ELSE LET child == process_directory(e, e.name, entry_rel_path)
                          IN  [children |->
                                   IF child.node.children # <<>>
                                   THEN Append(acc.children, child.node)
                                   ELSE acc.children,
                               warnings |-> acc.warnings \o child.warnings]
                ELSE IF e.kind = "file"
                THEN IF should_skip_file(e.name) THEN acc
                     ELSE LET f == file_node(e, entry_rel_path)
                          IN  [children |-> acc.children \o f.node,
                               warnings |-> acc.warnings \o f.warnings]
                ELSE acc
         IN  ProcessEntries(entries, rel_path, i + 1, next)

\* Lines 89-160.
build_tree(root) == process_directory(root, root.name, <<>>)

----------------------------------------------------------------------------
(* tree.py: main *)

\* Line 286: the token budget of the warning.
TokenBudget == 1500

RECURSIVE sum_tokens(_)

\* Line 274: sum(doc["tokens"] for doc in agent_docs).
sum_tokens(docs) ==
    IF docs = <<>> THEN 0 ELSE Head(docs).tokens + sum_tokens(Tail(docs))

\* Lines 269-275.
OutputDocument(root, t, docs) ==
    [root |-> root.name, tree |-> t, agentDocs |-> docs,
     totalAgentDocs |-> Len(docs), totalTokens |-> sum_tokens(docs)]

DocLines(text, docs) == [i \in 1..Len(docs) |-> Line(text, <<docs[i]>>)]

\* Lines 277-290, 299: what main prints to stderr after the build.
ReportLines(docs, out) ==
    LET high_token == SelectSeq(docs, LAMBDA d : d.tokens > TokenBudget)
    IN  <<Line("Agent docs found:", None)>>
        \o (IF docs # <<>> THEN DocLines("  {path} ({tokens} tokens)", docs)
            ELSE <<Line("  (none)", None)>>)
        \o (IF high_token # <<>>
            THEN <<Line("Warning: file(s) exceed 1500 token budget:", <<Len(high_token)>>)>>
                 \o DocLines("  {path}: {tokens} tokens", high_token)
            ELSE <<>>)
        \o (IF out # None THEN <<Line("Tree written to", out)>> ELSE <<>>)

\* Lines 247-249.
RootMissing ==
    /\ tpc = "start"
    /\ root_path = None
    /\ tree_stderr' = Append(tree_stderr, Line("Error: Path does not exist", None))
    /\ tree_exit' = <<1>>
    /\ tpc' = "done"
    /\ UNCHANGED <<built, full_tree, tree, agent_docs, heap, built_ref, tree_ref,
                   root_path, args_output, tree_stdout, tree_file,
                   mergeVars, validateVars, vizVars>>

\* A main that reports a root that is not a directory and ends with status 0.
RootNotDirectoryExitsZero ==
    /\ tpc = "start"
    /\ root_path # None
    /\ root_path[1].kind # "dir"
    /\ tree_stderr' = Append(tree_stderr, Line("Error: Path is not a directory", None))
    /\ tree_exit' = <<0>>
    /\ tpc' = "done"
    /\ UNCHANGED <<built, full_tree, tree, agent_docs, heap, built_ref, tree_ref,
                   root_path, args_output, tree_stdout, tree_file,
                   mergeVars, validateVars, vizVars>>

\* Lines 251-253.
RootNotDirectory ==
    /\ tpc = "start"
    /\ root_path # None
    /\ root_path[1].kind # "dir"
    /\ tree_stderr' = Append(tree_stderr, Line("Error: Path is not a directory", None))
    /\ tree_exit' = <<1>>
    /\ tpc' = "done"
    /\ UNCHANGED <<built, full_tree, tree, agent_docs, heap, built_ref, tree_ref,
                   root_path, args_output, tree_stdout, tree_file,
                   mergeVars, validateVars, vizVars>>

\* Lines 255-259.
BuildTree ==
    /\ tpc = "start"
    /\ root_path # None
    /\ root_path[1].kind = "dir"
    /\ LET r == build_tree(root_path[1])
           o == Store(<<>>, r.node)
       IN  /\ built' = r.node
           /\ tree' = r.node
           /\ heap' = o.heap
           /\ built_ref' = o.ref
           /\ tree_ref' = o.ref
           /\ tree_stderr' = tree_stderr \o r.warnings
    /\ tpc' = "built"
    /\ UNCHANGED <<full_tree, agent_docs, root_path, args_output, tree_stdout,
                   tree_file, tree_exit, mergeVars, validateVars, vizVars>>

\* Lines 268-301. args.output is given or not.
WriteTreeOutput ==
    /\ tpc = "collected"
    /\ root_path # None
    /\ \E out \in {None, <<"tree.json">>} :
          LET json_output == OutputDocument(root_path[1], tree, agent_docs)
          IN  /\ args_output' = out
              /\ tree_file' = IF out # None THEN <<json_output>> ELSE tree_file
              /\ tree_stdout' = IF out # None THEN tree_stdout ELSE <<json_output>>
              /\ tree_stderr' = tree_stderr \o ReportLines(agent_docs, out)
    /\ tree_exit' = <<0>>
    /\ tpc' = "done"
    /\ UNCHANGED <<built, full_tree, tree, agent_docs, heap, built_ref, tree_ref,
                   root_path, mergeVars, validateVars, vizVars>>

\* The most entries a listing of the root holds.
MaxEntries == 3

File(name) == [name |-> name, kind |-> "file", entries |-> <<>>, ok |-> TRUE, tokens |-> 0]

AgentDoc(name, ok, tokens) ==
    [name |-> name, kind |-> "file", entries |-> <<>>, ok |-> ok, tokens |-> tokens]

Dir(name, ok, entries) ==
    [name |-> name, kind |-> "dir", entries |-> entries, ok |-> ok, tokens |-> 0]

\* The listings of a directory below the root; the last is not in name order
\* and holds an excluded directory, a file of an excluded extension and a
\* directory without an agent doc.
SubListings ==
    {<<>>, <<File("main.py")>>,
     <<File("main.py"), File("logo.png"),
       Dir("node_modules", TRUE, <<AgentDoc("CLAUDE.md", TRUE, 1)>>),
       Dir("lib", TRUE, <<File("main.py")>>),
       AgentDoc("CLAUDE.md", TRUE, 1)>>}

\* The entries the root can hold.
RootEntries ==
    {Dir(".claude", TRUE, <<AgentDoc("CLAUDE.md", TRUE, 1)>>),
     Dir(".hidden", TRUE, <<AgentDoc("CLAUDE.md", TRUE, 1)>>)}
    \cup {Dir("lib", TRUE, l) : l \in SubListings}
    \cup {Dir("lib", FALSE, <<AgentDoc("CLAUDE.md", TRUE, 1)>>)}
    \cup {AgentDoc("CLAUDE.md", TRUE, MaxTokens),
          AgentDoc("CLAUDE.md", FALSE, MaxTokens),
          AgentDoc("Claude.md", TRUE, 1), AgentDoc("claude.md", TRUE, 1),
          File("main.py")}

\* The listings of the root: entries of different names, in any order.
RootListings ==
    {l \in SeqsUpTo(RootEntries, MaxEntries) :
        \A i, j \in 1..Len(l) : i # j => l[i].name # l[j].name}

\* What args.root_path can name: nothing, a file, or a directory.
RootPaths ==
    {None, <<File("main.py")>>, <<Dir("project", FALSE, <<File("main.py")>>)>>}
    \cup {<<Dir("project", TRUE, l)>> : l \in RootListings}

InitBuild ==
    /\ root_path \in RootPaths
    /\ args_output = None
    /\ full_tree \in BOOLEAN
    /\ tpc = "start"
    /\ built = None
    /\ tree = None
    /\ agent_docs = <<>>
    /\ heap = <<>>
    /\ built_ref = 0
    /\ tree_ref = 0
    /\ tree_stdout = None
    /\ tree_file = None
    /\ tree_stderr = <<>>
    /\ tree_exit = None
    /\ NoMerge
    /\ ValidateAtRest
    /\ NoViz

NextBuild ==
    \/ RootMissing
    \/ RootNotDirectory
    \/ BuildTree
    \/ FilterTree
    \/ CollectAgentDocs
    \/ WriteTreeOutput

SpecBuild == InitBuild /\ [][NextBuild]_vars

----------------------------------------------------------------------------
(* Claims about the build *)

\* The entries of the root directory, once build_tree has run.
RootEntriesBuilt ==
    IF built = None \/ root_path = None \/ ~root_path[1].ok THEN {}
    ELSE {root_path[1].entries[i] : i \in 1..Len(root_path[1].entries)}

\* The entry of the root has a node among the children of the built tree.
Included(e) ==
    \E i \in 1..Len(built.children) : built.children[i].name = e.name

\* C22: a hidden directory is skipped entirely during the build, except .claude,
\* which is recursed into and is included in its parent when it ends up with
\* at least one child.
HiddenDirectoriesSkippedButClaude ==
    \A e \in RootEntriesBuilt :
        (e.kind = "dir" /\ startswith_dot(e.name)) =>
            IF e.name = ".claude"
            THEN process_directory(e, e.name, <<e.name>>).node.children # <<>>
                    => Included(e)
            ELSE ~Included(e)

\* The part of C22 about the other hidden directories.
OtherHiddenDirectoriesSkipped ==
    \A e \in RootEntriesBuilt :
        (e.kind = "dir" /\ startswith_dot(e.name) /\ e.name # ".claude")
            => ~Included(e)

\* The names of the model that are claude.md or agents.md in some letter casing.
AnyLetterCasing == {"CLAUDE.md", "Claude.md", "claude.md"}

\* The files of the root that can be read, once build_tree has run.
ReadableFilesBuilt == {e \in RootEntriesBuilt : e.kind = "file" /\ e.ok}

\* The entry is in the built tree as an agent doc with its count of tokens.
MarkedAgentDoc(e) ==
    \E i \in 1..Len(built.children) :
        built.children[i] = AgentDocNode(e.name, <<e.name>>, e.tokens)

\* C23: a file whose name is claude.md or agents.md in any letter casing is
\* marked isAgentDoc = true, with tokens the tokenizer's count of its content.
AnyCasingIsAgentDoc ==
    \A e \in ReadableFilesBuilt : e.name \in AnyLetterCasing => MarkedAgentDoc(e)

\* The part of C23 about the four names of AGENT_DOC_PATTERNS.
ListedNamesAreAgentDocs ==
    \A e \in ReadableFilesBuilt : e.name \in AGENT_DOC_PATTERNS <=> MarkedAgentDoc(e)

RECURSIVE WithoutFailures(_)

\* The entry with every failure replaced by emptiness: a file that cannot be
\* read by a file of no tokens, a directory that cannot be listed by a
\* directory with no entries.
WithoutFailures(e) ==
    IF e.kind = "dir"
    THEN Dir(e.name, TRUE,
             IF e.ok THEN [i \in 1..Len(e.entries) |-> WithoutFailures(e.entries[i])]
             ELSE <<>>)
    ELSE [e EXCEPT !.ok = TRUE, !.tokens = IF e.ok THEN e.tokens ELSE 0]

\* The agent docs of the root that cannot be read, once build_tree has run.
UnreadableDocsBuilt ==
    {e \in RootEntriesBuilt : e.kind = "file" /\ is_agent_doc(e.name) /\ ~e.ok}

----------------------------------------------------------------------------
(* The two commands, each run once on inputs that may be missing *)

\* What args.root_path names in these runs.
CommandRoots ==
    {None, <<File("main.py")>>,
     <<Dir("project", TRUE, <<File("main.py"), AgentDoc("CLAUDE.md", TRUE, MaxTokens)>>)>>}

\* The input directories of these runs: one file each.
CommandDirectories ==
    {[f \in {n} |-> c] : n \in JsonNames, c \in MergeContents}
    \cup {[f \in {TextName} |-> Record(<<EdgeB>>)]}

InitCommands ==
    /\ root_path \in CommandRoots
    /\ args_output = None
    /\ full_tree \in BOOLEAN
    /\ tpc = "start"
    /\ built = None
    /\ tree = None
    /\ agent_docs = <<>>
    /\ heap = <<>>
    /\ built_ref = 0
    /\ tree_ref = 0
    /\ tree_stdout = None
    /\ tree_file = None
    /\ tree_stderr = <<>>
    /\ tree_exit = None
    /\ dirExists \in BOOLEAN
    /\ dir \in (IF dirExists THEN CommandDirectories ELSE {<<>>})
    /\ validate \in BOOLEAN
    /\ verbose = FALSE
    /\ MergeAtRest
    /\ ValidateAtRest
    /\ NoViz

NextCommands ==
    \/ NextBuild
    \/ NextMerge

SpecCommands == InitCommands /\ [][NextCommands]_vars

\* C25: a root path that is missing or not a directory, for the tree command,
\* and an input directory that is missing, for the merge command, end the run
\* at once with a non-zero exit status and a diagnostic message, and no JSON
\* document is written or printed.
MissingInputAborts ==
    /\ (tpc # "start" /\ (root_path = None \/ root_path[1].kind # "dir")) =>
           /\ tpc = "done"
           /\ tree_exit # None /\ tree_exit # <<0>>
           /\ Len(tree_stderr) = 1
           /\ built = None
           /\ tree_stdout = None
           /\ tree_file = None
    /\ (pc # "start" /\ ~dirExists) =>
           /\ pc = "done"
           /\ exit_code # None /\ exit_code # <<0>>
           /\ Len(stderr) = 1
           /\ json_files = <<>>
           /\ output = None

MissingInputAbortsWitness ==
    /\ tpc = "done"
    /\ root_path # None
    /\ root_path[1].kind = "file"
    /\ tree_exit = <<1>>
    /\ pc = "done"
    /\ ~dirExists
    /\ exit_code = <<1>>

\* The children of every directory of the tree are in ascending order of name.
ChildrenInNameOrder(t) ==
    \A n \in NodesOf(t) :
        \A i, j \in 1..Len(n.children) :
            i < j => NameLess(n.children[i].name, n.children[j].name)

RECURSIVE ListedBackwards(_)

\* The same snapshot, with os.listdir giving every listing in the opposite order.
ListedBackwards(e) ==
    [e EXCEPT !.entries = [i \in 1..Len(e.entries) |->
                              ListedBackwards(e.entries[Len(e.entries) + 1 - i])]]

\* C26: in the tree build_tree returns and in the tree the filter makes of it,
\* the children of each directory are in ascending order of name, files and
\* directories interleaved, so that another build of the same snapshot gives
\* the identical tree.
ChildrenSortedByName ==
    built # None =>
        /\ ChildrenInNameOrder(built)
        /\ ChildrenInNameOrder(tree)
        /\ built = build_tree(ListedBackwards(root_path[1])).node

ChildrenSortedByNameWitness ==
    /\ tpc = "filtered"
    /\ ~full_tree
    /\ root_path[1].entries # sorted_listdir(root_path[1].entries)
    /\ Len(tree.children) = 3
    /\ tree.children[1].type = "file"
    /\ tree.children[2].type = "directory"
    /\ tree.children[3].type = "file"
    /\ Len(tree.children[2].children) = 2
    /\ \E i \in 1..Len(root_path[1].entries) :
           LET e == root_path[1].entries[i]
           IN  e.kind = "dir" /\ e.entries # sorted_listdir(e.entries)

----------------------------------------------------------------------------
(* Claims about the reporting flags of the merge *)

\* C27: the map of validation errors of the summary is filled in detailed mode
\* only. Without --validate it is empty whatever the input; with --validate
\* its keys are exactly the invalid files and each value is that file's list
\* of errors, which is not empty.
ValidationErrorsOnlyWhenDetailed ==
    Merged =>
        LET errors == summary.validation_errors
        IN  IF validate
            THEN /\ DOMAIN errors = InvalidFilesOf(dir)
                 /\ \A f \in DOMAIN errors :
                        /\ errors[f] = validate_edge_file(dir[f]).errors
                        /\ errors[f] # <<>>
            ELSE DOMAIN errors = {}

ValidationErrorsWitness ==
    /\ Merged
    /\ validate
    /\ InvalidFilesOf(dir) # {}
    /\ JsonFilesOf(dir) \ InvalidFilesOf(dir) # {}
    /\ DOMAIN summary.validation_errors = InvalidFilesOf(dir)

\* The merged edges, the counts and the exit status of a result of
\* merge_edge_files.
Outcome(edges, s) ==
    [edges |-> edges, files_processed |-> s.files_processed,
     files_valid |-> s.files_valid, files_invalid |-> s.files_invalid,
     total_edges |-> s.total_edges, exit |-> ExitStatus(s)]

\* C28: the flags --validate and --verbose do not influence the result. The
\* merged edges, the counts of files processed, valid and invalid, the count
\* of edges and the exit status of a run are those of merge_edge_files on the
\* same directory under every other setting of the two flags.
FlagsDoNotInfluenceResult ==
    (Merged /\ dirExists) =>
        /\ \A v, vb \in BOOLEAN :
               LET r == merge_edge_files(dir, v, vb)
               IN  Outcome(merged_edges, summary)
                       = Outcome(r.merged_data.edges, r.summary)
        /\ pc = "done" => exit_code = <<ExitStatus(summary)>>
        /\ output = <<[edges |-> merged_edges]>>

FlagsDoNotInfluenceResultWitness ==
    /\ pc = "done"
    /\ validate
    /\ verbose
    /\ InvalidFilesOf(dir) # {}
    /\ merged_edges # <<>>
    /\ exit_code = <<1>>

----------------------------------------------------------------------------
(* getCumulativeTokens over indexes that name the docs of the root either way *)

\* The ways a tree document can list the doc docName of the root: not at all,
\* as `./${docName}`, as docName, or under both paths.
RootDocForms(docName, dotted, plain) ==
    {<<>>,
     <<AgentDocNode(docName, <<".", docName>>, dotted)>>,
     <<AgentDocNode(docName, <<docName>>, plain)>>,
     <<AgentDocNode(docName, <<".", docName>>, dotted),
       AgentDocNode(docName, <<docName>>, plain)>>}

\* What the directory a holds: its own docs, and a directory b with a doc.
SubtreeForms ==
    {<<>>,
     <<DirectoryNode("a", <<"a">>,
         <<AgentDocNode("CLAUDE.md", <<"a", "CLAUDE.md">>, 300)>>)>>,
     <<DirectoryNode("a", <<"a">>,
         <<AgentDocNode("AGENTS.md", <<"a", "AGENTS.md">>, 200),
           AgentDocNode("CLAUDE.md", <<"a", "CLAUDE.md">>, 300),
           DirectoryNode("b", <<"a", "b">>,
               <<AgentDocNode("CLAUDE.md", <<"a", "b", "CLAUDE.md">>, 100)>>)>>)>>}

IndexTrees ==
    {DirectoryNode("project", <<>>, c \o g \o d) :
        c \in RootDocForms("CLAUDE.md", 800, 500),
        g \in RootDocForms("AGENTS.md", 1200, 700),
        d \in SubtreeForms}

InitIndex ==
    /\ \E t \in IndexTrees : PageLoaded(t, None)
    /\ NoMerge
    /\ ValidateAtRest
    /\ NoTree

NextIndex ==
    \/ SetDocTypeFilter
    \/ SelectPath

SpecIndex == InitIndex /\ [][NextIndex]_vars

RECURSIVE SumOfBreakdown(_)
SumOfBreakdown(breakdown) ==
    IF breakdown = <<>> THEN 0
    ELSE Head(breakdown).tokens + SumOfBreakdown(Tail(breakdown))

\* The doc a path of the index names: `./${docName}` and docName name the
\* same doc of the root.
DocOf(file) == IF Head(file) = "." THEN Tail(file) ELSE file

\* The total is the sum of the breakdown and no doc is in the breakdown twice.
Consistent(r) ==
    /\ r.total = SumOfBreakdown(r.breakdown)
    /\ \A i, j \in 1..Len(r.breakdown) :
           i # j => DocOf(r.breakdown[i].file) # DocOf(r.breakdown[j].file)

\* C29: for every path, filter and index, the total getCumulativeTokens
\* returns is the sum of the tokens of its breakdown, and no doc is in the
\* breakdown more than once: a doc of the root is not counted under both
\* `./${docName}` and docName, nor again during the walk.
TotalIsSumOfBreakdown ==
    TREE_DATA # None =>
        /\ path_info # None => Consistent(path_info[1])
        /\ \A P \in DirectoryPaths(TREE_DATA) :
               \A filter \in {"all", "claude", "agents"} :
                   Consistent(getCumulativeTokens(agentDocTokens, filter, P))

TotalIsSumOfBreakdownWitness ==
    /\ path_info # None
    /\ selectedPath = <<(<<"a", "b">>)>>
    /\ activeDocTypeFilter = "claude"
    /\ {<<".", "CLAUDE.md">>, <<"CLAUDE.md">>} \subseteq DOMAIN agentDocTokens
    /\ Len(path_info[1].breakdown) = 3
    /\ path_info[1].total = 1200

----------------------------------------------------------------------------
(* Claims about the report of the tree command *)

\* The JSON document the run has printed or written.
TreeDocument == IF tree_file # None THEN tree_file[1] ELSE tree_stdout[1]

\* C30: the tree command reports the same list of agent docs, the same
\* totalAgentDocs and the same totalTokens with and without --full-tree: the
\* list is that of the tree build_tree returned, in depth-first order, whether
\* the tree was filtered or not; totalAgentDocs is its length and totalTokens
\* the sum of its tokens.
ReportSameInBothModes ==
    (tpc = "done" /\ built # None) =>
        LET doc == TreeDocument
            docs == doc.agentDocs
        IN  /\ docs = collect_agent_docs(built)
            /\ {docs[i] : i \in 1..Len(docs)} = AgentDocsIn(built)
            /\ doc.totalAgentDocs = Len(docs)
            /\ doc.totalAgentDocs = Cardinality(AgentDocsIn(built))
            /\ doc.totalTokens = SumTokens(AgentDocsIn(built))

ReportSameInBothModesWitness ==
    /\ tpc = "done"
    /\ built # None
    /\ ~full_tree
    /\ tree # built
    /\ TreeDocument.tree = tree
    /\ TreeDocument.totalAgentDocs = 2
    /\ TreeDocument.totalTokens = 2
    /\ \E i \in 1..2 : Len(TreeDocument.agentDocs[i].path) = 2

====
